---- MODULE Spec2Model ----
(***************************************************************************)
(* Book8 voice gateway: the Twilio call handlers and session store of      *)
(* src/index.js (latest server, lines 2075-3140), its /debug/agent-chat    *)
(* model/tool orchestration, and runAgentTurn of llmAgent.js               *)
(* (src/unnamed/part_006) with book8Client.js (src/unnamed/part_002).      *)
(*                                                                         *)
(* Spec      the call handlers over the session store, one call at a time  *)
(* SpecStore the session store over time: calls, the clock and the sweep   *)
(* SpecStoreFair  SpecStore with an interval timer that keeps firing       *)
(* SpecChat  one /debug/agent-chat turn                                    *)
(* SpecTurn  one runAgentTurn turn                                         *)
(* SpecFollow  one call whose events follow the URLs of the responses      *)
(* SpecRace  a call that ends while one of its turns awaits the agent      *)
(* SpecHang  the stages of the agent call of a turn, with its timer        *)
(* SpecLong  one long call, with a history longer than the agent window    *)
(* SpecRender  the rendering of the reply of a turn for spoken delivery    *)
(* SpecPair  two calls whose turns and status callbacks interleave         *)
(* SpecStart  a call that follows its URLs next to stray /twilio/voice     *)
(*            events                                                       *)
(* SpecApart  two calls with their status callbacks and the clock          *)
(*                                                                         *)
(* The bounds of the state space (MaxMsgs, MaxDrift, MaxTtlSteps,          *)
(* MaxHistory, MaxTokens) guard the events in the next-state relations;    *)
(* the actions themselves carry none.                                      *)
(***************************************************************************)
EXTENDS Integers, Sequences, FiniteSets, TLC

VARIABLES
    sessions,   \* the Map `sessions`: call identifier -> session object (a heap address)
    heap,       \* the session objects that are still referenced: address -> fields
    now,        \* Date.now()
    req,        \* the handler invocations in flight, one per slot
    ended,      \* history: the call identifiers a terminal status was processed for
    swept,      \* history: what the latest sweep that removed a session removed and kept
    chat,       \* the state of one /debug/agent-chat request
    turn,       \* the state of one runAgentTurn call
    render      \* the reply of one turn and the text spoken for it

vars == <<sessions, heap, now, req, ended, swept, chat, turn, render>>

(***************************************************************************)
(* Bounds of the model                                                     *)
(***************************************************************************)
MaxMsgs == 3       \* messages a session holds before no further utterance is fed in
MaxDrift == 1      \* single milliseconds the clock advances by
MaxTtlSteps == 1   \* whole TTLs the clock advances by
MaxToolCalls == 2  \* tool calls one assistant message requests

\* the handler invocations that can be in flight together
ReqIds == {"h1", "h2"}

(***************************************************************************)
(* Values                                                                  *)
(***************************************************************************)
Null == "<null>"                  \* undefined / null / "" : every falsy value of the code
CallSids == {"CA1", "CA2"}
Businesses == {"waismofit", "cutzbarber"}
DialedNumbers == {"+16477882883"}
NoObj == 0
ObjIds == 1..(Cardinality(CallSids) + Cardinality(ReqIds))

Range(f) == {f[x] : x \in DOMAIN f}

(***************************************************************************)
(* Text. Strings are the code's strings; a character is a one-character    *)
(* string taken with SubSeq.                                               *)
(***************************************************************************)
CharAt(s, i) == SubSeq(s, i, i)

\* the vertical tab, U+000B (the character between the quotes)
VT == ""

\* what \s of a regular expression and String.prototype.trim take for white
\* space, among the characters a string of the model can hold (those of
\* ASCII); U+00A0, U+FEFF and the Unicode separators are white space for the
\* code too
IsSpace(c) == c \in {" ", "\n", "\t", "\r", "\f", VT}

IsStop(c) == c \in {".", "!", "?"}

\* the concatenation of the strings pieces[lo..hi], by halves
RECURSIVE Concat(_, _, _)
Concat(pieces, lo, hi) ==
    IF lo > hi THEN ""
    ELSE IF lo = hi THEN pieces[lo]
    ELSE LET mid == (lo + hi) \div 2
         IN  Concat(pieces, lo, mid) \o Concat(pieces, mid + 1, hi)

\* the string made of the pieces, in order
Join(pieces) == Concat(pieces, 1, Len(pieces))

Min(S) == CHOOSE x \in S : \A y \in S : x <= y
Max(S) == CHOOSE x \in S : \A y \in S : x >= y

\* String.prototype.trim
Trim(s) ==
    LET solid == {i \in 1..Len(s) : ~IsSpace(CharAt(s, i))}
    IN  IF solid = {} THEN "" ELSE SubSeq(s, Min(solid), Max(solid))

\* a test that takes white space for speech
IsEmptyOnly(s) == s = Null \/ Len(s) = 0

\* !speech || speech.trim().length === 0
IsBlank(s) == s = Null \/ Len(s) = 0 \/ Len(Trim(s)) = 0

\* the first index of the maximal run of the character c that holds index i
RunStart(s, i, c) ==
    LET before == {j \in 1..i : CharAt(s, j) # c}
    IN  IF before = {} THEN 1 ELSE Max(before) + 1

RunLength(s, i, c) ==
    LET after == {j \in i..Len(s) : CharAt(s, j) # c}
        end == IF after = {} THEN Len(s) ELSE Min(after) - 1
    IN  end - RunStart(s, i, c) + 1

\* whether index i of s lies in one of the matches of /cc/g: the matches pair
\* the characters of each maximal run of c from its left end
InPair(s, i, c) ==
    CharAt(s, i) = c /\
    (i - RunStart(s, i, c)) < 2 * (RunLength(s, i, c) \div 2)

\* .replace(/\*\*/g, "")
DropBold(s) ==
    Join([i \in 1..Len(s) |-> IF InPair(s, i, "*") THEN "" ELSE CharAt(s, i)])

\* .replace(/[_`]/g, "") (a TLA+ string cannot hold the backquote, so no text of
\* the model contains one and only the underscore of the class is removed)
DropUnderscores(s) ==
    Join([i \in 1..Len(s) |-> IF CharAt(s, i) = "_" THEN "" ELSE CharAt(s, i)])

\* .replace(/\n\n/g, ". ").replace(/\n/g, " ")
FlattenNewlines(s) ==
    Join([i \in 1..Len(s) |->
            IF CharAt(s, i) # "\n" THEN CharAt(s, i)
            ELSE IF InPair(s, i, "\n") /\ (i - RunStart(s, i, "\n")) % 2 = 0 THEN "."
            ELSE " "])

StripMarkup(text) == FlattenNewlines(DropUnderscores(DropBold(text)))

\* String.prototype.split(/(?<=[.!?])\s+/): the separators are the maximal runs
\* of white space that follow a full stop, exclamation mark or question mark
SepStarts(s) ==
    {i \in 2..Len(s) : IsSpace(CharAt(s, i)) /\ IsStop(CharAt(s, i - 1))}

SepEnd(s, i) ==
    LET solid == {j \in i..Len(s) : ~IsSpace(CharAt(s, j))}
    IN  IF solid = {} THEN Len(s) ELSE Min(solid) - 1

\* the k-th separator, k = 1, 2, ..
NthSep(s, k) ==
    CHOOSE i \in SepStarts(s) : Cardinality({j \in SepStarts(s) : j < i}) = k - 1

SplitSentences(s) ==
    LET n == Cardinality(SepStarts(s))
        from(k) == IF k = 1 THEN 1 ELSE SepEnd(s, NthSep(s, k - 1)) + 1
        to(k) == IF k = n + 1 THEN Len(s) ELSE NthSep(s, k) - 1
    IN  [k \in 1..(n + 1) |-> SubSeq(s, from(k), to(k))]

\* parts.slice(0, 2).join(" ")
FirstTwo(parts) ==
    IF Len(parts) = 1 THEN parts[1] ELSE parts[1] \o " " \o parts[2]

PHONE_MAX_LEN == 220

RepromptText == "Sorry, I didn't catch that. Could you say that again?"

toPhoneSentence(text) ==
    IF text = Null \/ text = "" THEN RepromptText
    ELSE LET clean == FirstTwo(SplitSentences(StripMarkup(text)))
             capped == IF Len(clean) > PHONE_MAX_LEN
                       THEN SubSeq(clean, 1, PHONE_MAX_LEN) ELSE clean
         IN  Trim(capped)

\* a reply of the agent that is truthy and not a string (the JSON number 5):
\* text.replace is not a function, toPhoneSentence throws a TypeError
NonStringReply == "<number 5>"

\* the text process-agent speaks for a reply
\* lines 2659-2661: phoneReply, sentences, trimmed
TrimmedReply(replyText) == FirstTwo(SplitSentences(toPhoneSentence(replyText)))

SpokenText(replyText) == "<speak>" \o TrimmedReply(replyText) \o "</speak>"

RepeatText == "I'm sorry, I didn't quite catch that. Could you please repeat what you need?"

\* the rendering of one turn of /twilio/process-agent: reply is the reply of
\* the agent's answer as it is put together, text is replyText (lines
\* 2610-2611: it starts as the request to repeat), trimmed is what is spoken
\* once the turn is rendered; via tells where replyText came from
RenderIdle ==
    [n |-> 0, reply |-> "", via |-> "none",
     text |-> RepeatText,
     done |-> FALSE, trimmed |-> ""]

(***************************************************************************)
(* Session store (src/index.js 2275-2302)                                  *)
(***************************************************************************)
SESSION_TTL_MS == 20 * 60 * 1000

\* the clock advances by a millisecond or by the TTL, so that both sides of
\* the expiry comparison are reached in a few advances
TickSteps == {1, SESSION_TTL_MS}

\* the bound of the clock (the code has none: it guards the advances in the
\* next-state relations, not the action): MaxDrift single milliseconds and
\* MaxTtlSteps whole TTLs
CanTick(d) ==
    IF d = 1 THEN now % SESSION_TTL_MS < MaxDrift
    ELSE now \div SESSION_TTL_MS < MaxTtlSteps

\* { messages: [], lastActive: Date.now(), businessId: null }
NewSession == [messages |-> <<>>, lastActive |-> now, businessId |-> Null]

\* the address a new object gets: any free one, here the least
FreshObj == CHOOSE o \in ObjIds : o \notin DOMAIN heap /\
                \A p \in ObjIds : p \notin DOMAIN heap => o <= p

\* a getSession that builds a new session object on every call
getSessionRenewed(callSid) ==
    IF callSid = Null
    THEN [sessions |-> sessions, heap |-> heap, obj |-> NoObj]
    ELSE LET o == FreshObj
         IN  [sessions |-> [c \in DOMAIN sessions \cup {callSid} |->
                               IF c = callSid THEN o ELSE sessions[c]],
              heap |-> heap @@ (o :> NewSession),
              obj |-> o]

\* a get-or-create that writes a stale copy of the Map back: the entries
\* of the other calls are lost
getSessionLossy(callSid) ==
    IF callSid = Null
    THEN [sessions |-> sessions, heap |-> heap, obj |-> NoObj]
    ELSE LET has == callSid \in DOMAIN sessions
             o == IF has THEN sessions[callSid] ELSE FreshObj
             heap1 == IF has THEN heap ELSE heap @@ (o :> NewSession)
         IN  [sessions |-> (callSid :> o),
              heap |-> [heap1 EXCEPT ![o].lastActive = now],
              obj |-> o]

\* a get-or-create without the test of its key
getSessionUnguarded(callSid) ==
    LET has == callSid \in DOMAIN sessions
        o == IF has THEN sessions[callSid] ELSE FreshObj
        sess1 == IF has THEN sessions ELSE sessions @@ (callSid :> o)
        heap1 == IF has THEN heap ELSE heap @@ (o :> NewSession)
    IN  [sessions |-> sess1,
         heap |-> [heap1 EXCEPT ![o].lastActive = now],
         obj |-> o]

\* getSession(callSid): the store, the heap and the object returned
getSession(callSid) ==
    IF callSid = Null
    THEN [sessions |-> sessions, heap |-> heap, obj |-> NoObj]
    ELSE LET has == callSid \in DOMAIN sessions
             o == IF has THEN sessions[callSid] ELSE FreshObj
             sess1 == IF has THEN sessions ELSE sessions @@ (callSid :> o)
             heap1 == IF has THEN heap ELSE heap @@ (o :> NewSession)
         IN  [sessions |-> sess1,
              heap |-> [heap1 EXCEPT ![o].lastActive = now],
              obj |-> o]

\* the objects the garbage collector keeps: those of the store and those a
\* running handler still holds in its `session` constant
Live(sess, rq) == Range(sess) \cup ({rq[r].session : r \in ReqIds} \ {NoObj})

Collect(sess, hp, rq) == [o \in Live(sess, rq) |-> hp[o]]

\* an expiry test that takes a session idle for exactly the TTL as expired
ExpiredAtTtl(s) == now - s.lastActive >= SESSION_TTL_MS

\* now - s.lastActive > SESSION_TTL_MS
Expired(s) == now - s.lastActive > SESSION_TTL_MS

(***************************************************************************)
(* Responses sent to the transport (TwiML documents)                       *)
(***************************************************************************)
NotConfiguredText == "This number is not yet configured for a business. Goodbye."
GreetText == "Hi, thanks for calling. How can I help you today?"
ApologyText == "I'm sorry, I'm experiencing a technical issue. Please try calling again in a moment."
NoBusinessText == "I'm sorry, I'm having trouble identifying your business. Please try calling again."
\* line 2544: between the words the source holds three characters outside
\* ASCII (U+00E2, U+20AC, U+201D); they are written --- here, so that the
\* text keeps its length of 20
ThinkingText == "Sure --- one second."

Resp(type, say, biz, speech, to, callSid) ==
    [type |-> type, say |-> say, biz |-> biz, speech |-> speech, to |-> to,
     callSid |-> callSid]

\* <Say>text</Say><Hangup/>
SayHangup(text) == Resp("say-hangup", text, Null, Null, Null, Null)

\* <Gather action="/twilio/handle-gather?businessId=biz"><Say>text</Say></Gather>
\* <Redirect>/twilio/voice?businessId=biz</Redirect>
GatherResp(text, biz) == Resp("gather", text, biz, Null, Null, Null)

\* <Redirect>/twilio/voice[?businessId=biz]</Redirect>
RedirectVoice(biz) == Resp("redirect-voice", Null, biz, Null, Null, Null)

\* <Say>ThinkingText</Say><Redirect>/twilio/process-agent?speech=..</Redirect>
\* (URLSearchParams turns a missing to / callSid into "")
RedirectProcess(speech, to, biz, callSid) ==
    Resp("say-redirect-process", ThinkingText, biz, speech, to, callSid)

\* <Response></Response>
EmptyAck == Resp("empty", Null, Null, Null, Null, Null)

ApologyHangup == SayHangup(ApologyText)

\* the 404 fallback, lines 3134-3136: res.status(404).json({ ok: false, error: "Not found" })
NotFoundResp == Resp("http-404", Null, Null, Null, Null, Null)

\* the methods a request arrives with
Methods == {"GET", "POST"}

\* the routes: app.post("/twilio/voice") 2325, app.post("/twilio/handle-gather")
\* 2475, app.get("/twilio/process-agent") 2582, app.post("/twilio/status-callback") 2997
RouteMethod(kind) == IF kind = "process" THEN "GET" ELSE "POST"

(***************************************************************************)
(* Collaborators                                                           *)
(***************************************************************************)
\* what GET {CORE_API}/api/resolve can do
ResolverOutcomes ==
    [kind : {"ok"}, businessId : Businesses \cup {Null}]
        \cup [kind : {"not-ok", "throw", "bad-json"}, businessId : {Null}]

\* how the resolver request ended: "no-id" is a 2xx body without businessId
ResolveKind(o) == IF o.kind = "ok" /\ o.businessId = Null THEN "no-id" ELSE o.kind

\* resolveBusinessByTo(toPhone), once the fetch has ended with outcome o
resolveBusinessByTo(o) ==
    IF o.kind = "ok" THEN o.businessId ELSE Null

\* what POST {CORE_API}/internal/calls/start and /end can do
NotifyOutcomes == {"ok", "not-ok", "throw"}

AgentReplies == {"Booked. See you! Bye."}

\* what POST VOICE_AGENT_URL can do: a JSON body with or without a reply, a
\* reply that is not a string, the body `null`, a non-2xx status, a body that
\* is not JSON, an abort by the 10 s timer, a network error
AgentOutcomes ==
    [kind : {"ok"}, reply : AgentReplies \cup {Null, NonStringReply}]
        \cup [kind : {"json-null", "not-ok", "bad-json", "timeout", "network"},
              reply : {Null}]

AgentFailureKinds == {"json-null", "not-ok", "bad-json", "timeout", "network"}

NotOkReply == "I'm having trouble accessing the scheduling system right now. Please try again a bit later."
BadJsonReply == "I'm having trouble processing the response. Please try again."
TimeoutReply == "I'm taking a bit longer than usual. Please hold on, or try again in a moment."
FatalReply == "I'm having trouble connecting right now. Please try calling again in a moment."
NoReplyText == "Thanks. How else can I help you today?"

\* callAgentSafely(agentBody, callSid, businessId), once the fetch has ended
\* with outcome o: it returns { success, reply } (throws is whether it throws
\* instead: its outer catch returns for every exception)
AgentResult(success, reply) == [success |-> success, reply |-> reply, throws |-> FALSE]

AgentThrows == [success |-> FALSE, reply |-> Null, throws |-> TRUE]

\* callAgentSafely without its outer catch: a network error is thrown on
callAgentRethrows(o) ==
    CASE o.kind = "not-ok" -> AgentResult(FALSE, NotOkReply)
      [] o.kind = "bad-json" -> AgentResult(FALSE, BadJsonReply)
      [] o.kind = "timeout" -> AgentResult(FALSE, TimeoutReply)
      [] o.kind \in {"network", "json-null"} -> AgentThrows
      [] o.kind = "ok" ->
           AgentResult(TRUE, IF o.reply # Null THEN o.reply ELSE NoReplyText)

callAgentSafely(o) ==
    CASE o.kind = "not-ok" -> AgentResult(FALSE, NotOkReply)
      [] o.kind = "bad-json" -> AgentResult(FALSE, BadJsonReply)
      [] o.kind = "timeout" -> AgentResult(FALSE, TimeoutReply)
      [] o.kind \in {"network", "json-null"} -> AgentResult(FALSE, FatalReply)
      [] o.kind = "ok" ->
           AgentResult(TRUE, IF o.reply # Null THEN o.reply ELSE NoReplyText)

(***************************************************************************)
(* Handler invocations. A handler runs from one await to the next in one   *)
(* step; pc names the request it is suspended at, and body tells whether   *)
(* the request has been answered and the handler is suspended in the       *)
(* second await, the one that reads the body of the answer.                *)
(***************************************************************************)
\* a list of end states that also holds a state of a live call
EndStatesWide == {"completed", "failed", "busy", "no-answer", "canceled", "in-progress"}

EndStates == {"completed", "failed", "busy", "no-answer", "canceled"}
StatusInputs == EndStates \cup {"in-progress"}
BlankSpeech == " \f" \o VT
SpeechInputs == {"", BlankSpeech, "book me in"}
HISTORY_WINDOW == 12

\* a slot that runs no handler
IdleReq ==
    [pc |-> "idle", kind |-> "none", callSid |-> Null, to |-> Null, qBiz |-> Null,
     speech |-> "", status |-> Null, session |-> NoObj, businessId |-> Null,
     agentMsgs |-> <<>>, sent |-> <<>>, threw |-> FALSE, resolves |-> 0,
     notifs |-> <<>>, agentKind |-> "none", notifyKind |-> "none", cleaned |-> FALSE,
     resolveKind |-> "none", first |-> Null, body |-> FALSE]

NewReq(kind, callSid, to, qBiz, speech, status) ==
    [IdleReq EXCEPT !.pc = "run", !.kind = kind, !.callSid = callSid, !.to = to,
                    !.qBiz = qBiz, !.speech = speech, !.status = status]

\* res.type("text/xml").send(...)
Send(rec, resp) == [rec EXCEPT !.sent = Append(@, resp)]

\* the response is out and the handler is about to return
Finish(rec) == [rec EXCEPT !.pc = "done"]

\* a step of a handler ends normally, or with an exception thrown in its try block
Ok(rec, hp) == [rec |-> rec, heap |-> hp, threw |-> FALSE]
Throw(rec, hp) == [rec |-> rec, heap |-> hp, threw |-> TRUE]

\* a handler without a catch block: the exception ends it, nothing is sent
Unhandled(out) ==
    IF out.threw
    THEN Ok([out.rec EXCEPT !.pc = "done", !.threw = TRUE], out.heap)
    ELSE out

\* the catch block of /twilio/voice, /twilio/handle-gather and
\* /twilio/process-agent: say the apology, hang up
CatchApology(out) ==
    IF out.threw
    THEN Ok(Finish(Send([out.rec EXCEPT !.threw = TRUE], ApologyHangup)), out.heap)
    ELSE out

\* the catch block of /twilio/status-callback: the empty response
CatchAck(out) ==
    IF out.threw
    THEN Ok(Finish(Send([out.rec EXCEPT !.threw = TRUE], EmptyAck)), out.heap)
    ELSE out

SetBusiness(hp, o, b) == [hp EXCEPT ![o].businessId = b]

\* array.unshift(msg): the entry goes to the front
PushFirst(hp, o, msg) == [hp EXCEPT ![o].messages = <<msg>> \o @]

Push(hp, o, msg) == [hp EXCEPT ![o].messages = Append(@, msg)]

\* array.slice(0, n): the oldest n entries
FirstN(seq, n) == IF Len(seq) <= n THEN seq ELSE SubSeq(seq, 1, n)

\* array.slice(-n)
LastN(seq, n) ==
    IF Len(seq) <= n THEN seq ELSE SubSeq(seq, Len(seq) - n + 1, Len(seq))

----------------------------------------------------------------------------
\* a greeting whose URLs drop the business identifier
VoiceGreetBare(rec, hp, b) == Ok(Finish(Send(rec, GatherResp(GreetText, Null))), hp)

\* /twilio/voice, lines 2422-2450: greet and gather
VoiceGreet(rec, hp, b) == Ok(Finish(Send(rec, GatherResp(GreetText, b))), hp)

\* a handler that notifies the call start on every /twilio/voice event
VoiceStoreAlways(rec, hp, b) ==
    IF rec.session = NoObj THEN Throw(rec, hp)
    ELSE Ok([rec EXCEPT !.pc = "v-notify", !.businessId = b,
                        !.notifs = Append(@, "start")],
            SetBusiness(hp, rec.session, b))

\* /twilio/voice, lines 2362-2420: store businessId, notify the call start on
\* the first request of the call
VoiceStore(rec, hp, b) ==
    IF rec.session = NoObj THEN Throw(rec, hp)
    ELSE LET hp1 == SetBusiness(hp, rec.session, b)
         IN  IF rec.qBiz = Null /\ rec.callSid # Null
             THEN Ok([rec EXCEPT !.pc = "v-notify", !.businessId = b,
                                 !.notifs = Append(@, "start")], hp1)
             ELSE VoiceGreet(rec, hp1, b)

\* a handler that asks the resolver a second time after "not found"
VoiceResolvedRetry(rec, hp, b) ==
    IF b = Null
    THEN IF rec.resolves < 2
         THEN Ok([rec EXCEPT !.pc = "v-resolve", !.resolves = @ + 1], hp)
         ELSE Ok(Finish(Send(rec, SayHangup(NotConfiguredText))), hp)
    ELSE VoiceStore(rec, hp, b)

\* /twilio/voice, lines 2346-2360: the resolver answered b
VoiceResolved(rec, hp, b) ==
    IF b = Null
    THEN Ok(Finish(Send(rec, SayHangup(NotConfiguredText))), hp)
    ELSE VoiceStore(rec, hp, b)

\* /twilio/voice, lines 2337-2345, after getSession
VoiceEntry(rec, hp) ==
    IF rec.qBiz = Null /\ rec.session = NoObj THEN Throw(rec, hp)
    ELSE LET b == IF rec.qBiz # Null THEN rec.qBiz ELSE hp[rec.session].businessId
         IN  IF b # Null THEN VoiceStore(rec, hp, b)
             ELSE IF rec.to = Null THEN VoiceResolved(rec, hp, Null)
             ELSE Ok([rec EXCEPT !.pc = "v-resolve", !.resolves = @ + 1], hp)

----------------------------------------------------------------------------
\* /twilio/handle-gather, lines 2505-2557
\* a handle-gather that leaves the appending of the utterance to the turn
GatherRestNoAppend(rec, hp, b) ==
    IF IsBlank(rec.speech)
        THEN Ok(Finish(Send(rec, RedirectVoice(b))), hp)
    ELSE IF b = Null
        THEN Ok(Finish(Send(rec, SayHangup(NoBusinessText))), hp)
    ELSE IF rec.session = NoObj
        THEN Throw(rec, hp)
    ELSE Ok(Finish(Send(rec, RedirectProcess(rec.speech, rec.to, b, rec.callSid))),
            SetBusiness(hp, rec.session, b))

GatherRest(rec, hp, b) ==
    IF IsBlank(rec.speech)
        THEN Ok(Finish(Send(rec, RedirectVoice(b))), hp)
    ELSE IF b = Null
        THEN Ok(Finish(Send(rec, SayHangup(NoBusinessText))), hp)
    ELSE IF rec.session = NoObj
        THEN Throw(rec, hp)
    ELSE LET hp1 == Push(SetBusiness(hp, rec.session, b), rec.session,
                         [role |-> "user", content |-> rec.speech])
         IN  Ok(Finish(Send(rec, RedirectProcess(rec.speech, rec.to, b, rec.callSid))),
                hp1)

\* lines 2486-2498 of /twilio/handle-gather and 2594-2608 of
\* /twilio/process-agent: the business of the request is known, or the
\* resolver has to be awaited, or reading session.businessId throws
Resolution(rec, hp) ==
    IF rec.qBiz # Null THEN [is |-> "known", businessId |-> rec.qBiz]
    ELSE IF rec.session = NoObj THEN [is |-> "throw", businessId |-> Null]
    ELSE IF hp[rec.session].businessId # Null
        THEN [is |-> "known", businessId |-> hp[rec.session].businessId]
    ELSE IF rec.to # Null THEN [is |-> "await", businessId |-> Null]
    ELSE [is |-> "known", businessId |-> Null]

GatherEntry(rec, hp) ==
    LET res == Resolution(rec, hp)
    IN  CASE res.is = "throw" -> Throw(rec, hp)
          [] res.is = "await" ->
               Ok([rec EXCEPT !.pc = "g-resolve", !.resolves = @ + 1], hp)
          [] res.is = "known" -> GatherRest(rec, hp, res.businessId)

\* lines 2496-2497: businessId = await resolveBusinessByTo(to); session.businessId = businessId
GatherResolved(rec, hp, b) == GatherRest(rec, SetBusiness(hp, rec.session, b), b)

----------------------------------------------------------------------------
\* /twilio/process-agent, lines 2657-2685: speak the reply, gather again
ProcessReply(rec, hp, b, replyText) ==
    IF replyText = NonStringReply THEN Throw(rec, hp)
    ELSE Ok(Finish(Send(rec, GatherResp(SpokenText(replyText), b))), hp)

\* /twilio/process-agent, lines 2610-2644
ProcessRest(rec, hp, b) ==
    IF b = Null
        THEN Ok(Finish(Send(rec, SayHangup(NoBusinessText))), hp)
    ELSE IF ~IsBlank(rec.speech)
        THEN IF rec.session = NoObj THEN Throw(rec, hp)
             ELSE Ok([rec EXCEPT !.pc = "p-agent", !.businessId = b,
                          !.agentMsgs = LastN(hp[rec.session].messages,
                                              HISTORY_WINDOW)], hp)
    ELSE ProcessReply(rec, hp, b, RepeatText)

ProcessEntry(rec, hp) ==
    LET res == Resolution(rec, hp)
    IN  CASE res.is = "throw" -> Throw(rec, hp)
          [] res.is = "await" ->
               Ok([rec EXCEPT !.pc = "p-resolve", !.resolves = @ + 1], hp)
          [] res.is = "known" -> ProcessRest(rec, hp, res.businessId)

ProcessResolved(rec, hp, b) == ProcessRest(rec, SetBusiness(hp, rec.session, b), b)

\* /twilio/process-agent, lines 2644-2655: the agent call ended with outcome o
ProcessAgentReturned(rec, hp, o) ==
    LET agentResult == callAgentSafely(o)
        rec1 == [rec EXCEPT !.agentKind = o.kind]
        hp1 == IF agentResult.success
               THEN Push(hp, rec.session,
                         [role |-> "assistant", content |-> agentResult.reply])
               ELSE hp
    IN  IF agentResult.throws THEN Throw(rec1, hp)
        ELSE ProcessReply(rec1, hp1, rec.businessId, agentResult.reply)

----------------------------------------------------------------------------
\* a mapping that passes the carrier's status through
MappedStatusRaw(status) == status

\* completed -> completed; busy | failed | no-answer | canceled -> failed
MappedStatus(status) == IF status = "completed" THEN "completed" ELSE "failed"

\* a cleanup that deletes nothing
CleanupSkipped(sess, callSid) == sess

\* a cleanup that empties the store
CleanupAll(sess, callSid) == [c \in {} |-> NoObj]

\* a cleanup that deletes the sessions of the other calls
CleanupOthers(sess, callSid) == [c \in DOMAIN sess \cap {callSid} |-> sess[c]]

\* /twilio/status-callback, lines 3055-3059: sessions.delete(CallSid)
Cleanup(sess, callSid) ==
    IF callSid # Null /\ callSid \in DOMAIN sess
    THEN [c \in DOMAIN sess \ {callSid} |-> sess[c]]
    ELSE sess

\* /twilio/status-callback, lines 3055-3100: clean up, then notify the call end
StatusCleanup(rec, sess) ==
    [rec |-> [rec EXCEPT !.pc = "s-notify",
                         !.cleaned = (Cleanup(sess, rec.callSid) # sess),
                         !.notifs = Append(@, MappedStatus(rec.status))],
     sessions |-> Cleanup(sess, rec.callSid)]

(***************************************************************************)
(* Messages of the chat-completions API                                    *)
(***************************************************************************)
Msg(role, content) ==
    [role |-> role, content |-> content, tool_calls |-> <<>>, tool_call_id |-> Null]

\* { role: "tool", tool_call_id, content }
ToolMsg(id, content) ==
    [role |-> "tool", content |-> content, tool_calls |-> <<>>, tool_call_id |-> id]

\* an assistant message of the model
Assistant(content, calls) ==
    [role |-> "assistant", content |-> content, tool_calls |-> calls,
     tool_call_id |-> Null]

\* no message: choices[0]?.message is undefined
NoMsg == Msg("none", Null)

\* no answer of the model yet
NoAnswer == [kind |-> "none", message |-> NoMsg]

\* { role: "system", content: systemPrompt }
SystemMsg == Msg("system", "You are the booking assistant of Wais Mo Fitness.")

ValidArgs == "{\"date\":\"2025-06-02\"}"
MalformedArgs == "{\"date\":"
UnknownTool == "cancel_appointment"

\* what the model can ask for in one tool call: its name and argument string
ToolRequests ==
    [name : {"check_availability", "book_appointment", UnknownTool},
     arguments : {ValidArgs}]
        \cup [name : {"book_appointment"}, arguments : {MalformedArgs}]

\* the model gives every tool call its own identifier
CallId(round, i) == "call_" \o ToString(round) \o "_" \o ToString(i)

\* the tool calls of one message, numbered in the order the model lists them
WithIds(round, f) ==
    [i \in DOMAIN f |-> [id |-> CallId(round, i), name |-> f[i].name,
                         arguments |-> f[i].arguments]]

ToolCallLists(round) ==
    {WithIds(round, f) : f \in UNION {[1..n -> ToolRequests] : n \in 1..MaxToolCalls}}

ReplyText == "You are booked for 10:00."

\* what openai.chat.completions.create can do when tools are offered: throw,
\* answer without a message, answer with a text (or an empty one), or ask for
\* tool calls
ModelOutcomes(round) ==
    [kind : {"throw", "no-message"}, message : {NoMsg}]
        \cup [kind : {"message"},
              message : {Assistant(c, <<>>) : c \in {Null, ReplyText}}
                            \cup {Assistant(Null, l) : l \in ToolCallLists(round)}]

\* the third answer: only its content is read, with or without tool calls in it
ThirdOutcomes ==
    [kind : {"throw", "no-message"}, message : {NoMsg}]
        \cup [kind : {"message"},
              message : {Assistant(c, l) :
                            c \in {Null, ReplyText},
                            l \in {<<>>, <<[id |-> CallId(3, 1),
                                            name |-> "book_appointment",
                                            arguments |-> ValidArgs]>>}}]

\* what POST {BOOK8_BASE_URL}/api/agent/availability and /book can do for
\* /debug/agent-chat: a 2xx JSON body, an error status with a JSON body, or no
\* JSON body at all (network failure, timeout of the platform, a body that is
\* not JSON: fetch or resp.json() rejects)
ApiOutcomes == {"ok", "error", "throw"}

ApiOkBody == "{\"ok\":true}"
ApiErrorBody == "{\"ok\":false,\"error\":\"Slot no longer available\"}"

\* JSON.stringify(await resp.json())
ApiBody(o) == IF o = "ok" THEN ApiOkBody ELSE ApiErrorBody

ApiOf(name) == IF name = "check_availability" THEN "availability" ELSE "book"

FinalFallback == "Sorry, I couldn't generate a response."

(***************************************************************************)
(* POST /debug/agent-chat (src/index.js 2705-2969)                         *)
(***************************************************************************)
ChatIdle ==
    [pc |-> "idle", message |-> Null, messagesIn |-> <<>>,
     conversationMessages |-> <<>>, assistantMessage |-> NoMsg,
     toolOutputs |-> <<>>, secondMessage |-> NoMsg, secondToolOutputs |-> <<>>,
     third |-> NoAnswer, round |-> 0, idx |-> 0, modelCalls |-> <<>>,
     apiCalls |-> <<>>, response |-> <<>>, body |-> FALSE]

\* res.json({ ok: true, reply })
ChatReply(st, reply) ==
    [st EXCEPT !.pc = "done",
               !.response = Append(@, [status |-> 200, ok |-> TRUE, reply |-> reply])]

\* res.status(code).json({ ok: false, error })
ChatError(st, code) ==
    [st EXCEPT !.pc = "done",
               !.response = Append(@, [status |-> code, ok |-> FALSE, reply |-> Null])]

\* openai.chat.completions.create({ messages, tools })
ChatCallModel(st, pc, messages, tools) ==
    [st EXCEPT !.pc = pc,
               !.modelCalls = Append(@, [messages |-> messages, tools |-> tools])]

\* lines 2834-2851 and 2920-2937: the follow-up model call of the round
ChatFollowUp(st) ==
    LET head == <<SystemMsg, Msg("user", st.message), st.assistantMessage>>
                    \o st.toolOutputs
    IN  IF st.round = 1
        THEN ChatCallModel(st, "second", head, TRUE)
        ELSE ChatCallModel(st, "third",
                           head \o <<st.secondMessage>> \o st.secondToolOutputs, FALSE)

ChatRoundCalls(st) ==
    IF st.round = 1 THEN st.assistantMessage.tool_calls ELSE st.secondMessage.tool_calls

\* lines 2775-2832 and 2862-2918: the for loop over the tool calls, up to its
\* next fetch
RECURSIVE ChatToolLoop(_)
ChatToolLoop(st) ==
    IF st.idx > Len(ChatRoundCalls(st)) THEN ChatFollowUp(st)
    ELSE LET tc == ChatRoundCalls(st)[st.idx]
         IN  IF tc.arguments = MalformedArgs THEN ChatError(st, 500)
             ELSE IF tc.name \in {"check_availability", "book_appointment"}
             THEN [st EXCEPT !.pc = "tool",
                             !.apiCalls = Append(@, [api |-> ApiOf(tc.name),
                                                     id |-> tc.id,
                                                     outcome |-> "pending"])]
             ELSE ChatToolLoop([st EXCEPT !.idx = @ + 1])

\* toolOutputs.push / secondToolOutputs.push
ChatPushOutput(st, out) ==
    IF st.round = 1 THEN [st EXCEPT !.toolOutputs = Append(@, out)]
    ELSE [st EXCEPT !.secondToolOutputs = Append(@, out)]

\* the request of the tool call has ended with outcome o
ChatSetOutcome(st, o) ==
    [st EXCEPT !.apiCalls[Len(st.apiCalls)].outcome = o, !.body = FALSE]

\* the request ends with outcome o from where the handler is suspended: while
\* the request is out fetch rejects; while the body is read (await
\* resp.json(), 2797, 2823, 2883, 2909) the body is JSON, or resp.json() rejects
ChatToolEnds(st, o) == st.body \/ o = "throw"

\* what the request body holds: message, messages, handle / businessId
ChatHistory == <<Msg("user", "Do you have time tomorrow?"),
                 Msg("assistant", "Yes, at 10:00 or 14:00."),
                 Msg("user", "Book 10:00 please.")>>

ChatBodies ==
    [message : {Null, "Book 10:00 please."}, messages : {<<>>, ChatHistory},
     handle : {Null, "waismofit"}]

\* lines 2705-2749: validation and the first model call
ChatStart(body) ==
    /\ chat.pc = "idle"
    /\ LET conv == IF body.messages # <<>> THEN body.messages
                   ELSE <<Msg("user", body.message)>>
           st == [chat EXCEPT !.message = body.message, !.messagesIn = body.messages,
                              !.conversationMessages = conv]
       IN  chat' = IF body.messages = <<>> /\ body.message = Null
                       THEN ChatError(st, 400)
                   ELSE IF body.handle = Null THEN ChatError(st, 400)
                   ELSE ChatCallModel(st, "first", <<SystemMsg>> \o conv, TRUE)
    /\ UNCHANGED <<sessions, heap, now, req, ended, swept, turn, render>>

\* lines 2751-2779: the first answer
ChatFirstResponse(o) ==
    /\ chat.pc = "first"
    /\ chat' = IF o.kind # "message" THEN ChatError(chat, 500)
               ELSE IF o.message.tool_calls = <<>>
               THEN ChatReply([chat EXCEPT !.assistantMessage = o.message],
                              IF o.message.content # Null THEN o.message.content
                              ELSE "")
               ELSE ChatToolLoop([chat EXCEPT !.assistantMessage = o.message,
                                              !.round = 1, !.idx = 1])
    /\ UNCHANGED <<sessions, heap, now, req, ended, swept, turn, render>>

\* a tool loop that repeats a failed request
ChatToolRetried(o) ==
    /\ chat.pc = "tool" /\ ChatToolEnds(chat, o)
    /\ LET tc == ChatRoundCalls(chat)[chat.idx]
           st == ChatSetOutcome(chat, o)
       IN  chat' = IF o # "ok"
                   THEN [st EXCEPT !.apiCalls = Append(@, [api |-> ApiOf(tc.name),
                                                           id |-> tc.id,
                                                           outcome |-> "pending"])]
                   ELSE ChatToolLoop([ChatPushOutput(st, ToolMsg(tc.id, ApiBody(o)))
                                         EXCEPT !.idx = @ + 1])
    /\ UNCHANGED <<sessions, heap, now, req, ended, swept, turn, render>>

\* lines 2783-2797 and 2869-2883: await fetch(..) resolves, the handler goes
\* on to await resp.json()
ChatResponseArrives ==
    /\ chat.pc = "tool" /\ ~chat.body
    /\ chat' = [chat EXCEPT !.body = TRUE]
    /\ UNCHANGED <<sessions, heap, now, req, ended, swept, turn, render>>

\* lines 2783-2831 and 2869-2917: the request of a tool call ended with outcome o
ChatToolDone(o) ==
    /\ chat.pc = "tool" /\ ChatToolEnds(chat, o)
    /\ LET tc == ChatRoundCalls(chat)[chat.idx]
           st == ChatSetOutcome(chat, o)
       IN  chat' = IF o = "throw" THEN ChatError(st, 500)
                   ELSE ChatToolLoop([ChatPushOutput(st, ToolMsg(tc.id, ApiBody(o)))
                                         EXCEPT !.idx = @ + 1])
    /\ UNCHANGED <<sessions, heap, now, req, ended, swept, turn, render>>

\* lines 2853-2862 and 2952-2961: the second answer
ChatSecondResponse(o) ==
    /\ chat.pc = "second"
    /\ chat' = IF o.kind # "message" THEN ChatError(chat, 500)
               ELSE IF o.message.tool_calls # <<>>
               THEN ChatToolLoop([chat EXCEPT !.secondMessage = o.message,
                                              !.round = 2, !.idx = 1])
               ELSE ChatReply([chat EXCEPT !.secondMessage = o.message],
                              IF o.message.content # Null THEN o.message.content
                              ELSE FinalFallback)
    /\ UNCHANGED <<sessions, heap, now, req, ended, swept, turn, render>>

\* a third answer whose tool calls start a further round
ChatThirdLoops(o) ==
    /\ chat.pc = "third"
    /\ chat' = IF o.kind = "throw" THEN ChatError(chat, 500)
               ELSE IF o.message.tool_calls # <<>>
               THEN ChatCallModel([chat EXCEPT !.third = o], "third",
                                  chat.modelCalls[Len(chat.modelCalls)].messages
                                      \o <<o.message>>, FALSE)
               ELSE ChatReply([chat EXCEPT !.third = o],
                              IF o.message.content # Null THEN o.message.content
                              ELSE FinalFallback)
    /\ UNCHANGED <<sessions, heap, now, req, ended, swept, turn, render>>

\* lines 2939-2949: the third answer ends the turn
ChatThirdResponse(o) ==
    /\ chat.pc = "third"
    /\ chat' = IF o.kind = "throw" THEN ChatError(chat, 500)
               ELSE ChatReply([chat EXCEPT !.third = o],
                              IF o.message.content # Null THEN o.message.content
                              ELSE FinalFallback)
    /\ UNCHANGED <<sessions, heap, now, req, ended, swept, turn, render>>

NextChat ==
    \/ \E body \in ChatBodies : ChatStart(body)
    \/ \E o \in ModelOutcomes(1) : ChatFirstResponse(o)
    \/ ChatResponseArrives
    \/ \E o \in ApiOutcomes : ChatToolDone(o)
    \/ \E o \in ModelOutcomes(2) : ChatSecondResponse(o)
    \/ \E o \in ThirdOutcomes : ChatThirdResponse(o)

(***************************************************************************)
(* runAgentTurn (src/unnamed/part_006) with postJson (src/unnamed/part_002) *)
(***************************************************************************)
TurnIdle ==
    [pc |-> "idle", userMessage |-> Null, assistantMessage |-> NoMsg,
     toolResults |-> <<>>, idx |-> 0, modelCalls |-> <<>>, apiCalls |-> <<>>,
     result |-> <<>>, body |-> FALSE]

\* return { text, raw: response }
TurnReturn(st, text) ==
    [st EXCEPT !.pc = "done", !.result = Append(@, [kind |-> "return", text |-> text])]

\* the promise of runAgentTurn rejects
TurnReject(st, error) ==
    [st EXCEPT !.pc = "done", !.result = Append(@, [kind |-> "throw", text |-> error])]

\* finalMessage.content || "Sorry, I couldn't generate a response."
TurnFinal(st, o) ==
    IF o.kind = "throw" THEN TurnReject(st, "model call failed")
    ELSE IF o.kind = "no-message" THEN TurnReject(st, "No final output from model")
    ELSE TurnReturn(st, IF o.message.content # Null THEN o.message.content
                        ELSE FinalFallback)

\* what a request of postJson (book8Client.js 13-35) can end with: a 2xx JSON
\* body, an answer whose JSON body names an error, a fetch that rejects
\* (network failure, timeout), and a body that is not JSON under a 2xx or
\* under an error status
PostJsonOutcomes == {"ok", "error", "throw", "no-json-ok", "no-json-error"}

FetchFailedBody == "{\"ok\":false,\"error\":\"fetch failed\"}"

\* res.json().catch(() => ({})): a body that is not JSON is taken for {}
EmptyObjectBody == "{}"

\* the error postJson makes up from the status (502 here) and the path
StatusErrorBody(api) ==
    "{\"ok\":false,\"error\":\"Book8 API error 502 for /api/agent/" \o api \o "\"}"

\* postJson and the catch of the tool loop: the content of the tool result
TurnToolContent(o, api) ==
    IF o = "ok" THEN ApiOkBody
    ELSE IF o = "error" THEN ApiErrorBody
    ELSE IF o = "throw" THEN FetchFailedBody
    ELSE IF o = "no-json-ok" THEN EmptyObjectBody
    ELSE StatusErrorBody(api)

\* lines 52-136: the for loop over the tool calls up to its next request, then
\* the model call with the results and without tools
RECURSIVE TurnToolLoop(_)
TurnToolLoop(st) ==
    IF st.idx > Len(st.assistantMessage.tool_calls)
    THEN [st EXCEPT !.pc = "final",
                    !.modelCalls = Append(@,
                        [messages |-> <<SystemMsg, Msg("user", st.userMessage),
                                        st.assistantMessage>> \o st.toolResults,
                         tools |-> FALSE])]
    ELSE LET call == st.assistantMessage.tool_calls[st.idx]
         IN  IF call.arguments = MalformedArgs
             THEN TurnReject(st, "Unexpected end of JSON input")
             ELSE IF call.name \in {"check_availability", "book_appointment"}
             THEN [st EXCEPT !.pc = "tool",
                             !.apiCalls = Append(@, [api |-> ApiOf(call.name),
                                                     id |-> call.id,
                                                     outcome |-> "pending"])]
             ELSE TurnToolLoop([st EXCEPT !.idx = @ + 1])

\* lines 21-38: the first model call, with the tools
TurnStart(userMessage) ==
    /\ turn.pc = "idle"
    /\ turn' = [turn EXCEPT !.pc = "first", !.userMessage = userMessage,
                            !.modelCalls = Append(@,
                                [messages |-> <<SystemMsg, Msg("user", userMessage)>>,
                                 tools |-> TRUE])]
    /\ UNCHANGED <<sessions, heap, now, req, ended, swept, chat, render>>

\* lines 41-50 and 139-146: the first answer
TurnFirstResponse(o) ==
    /\ turn.pc = "first"
    /\ turn' = IF o.kind = "throw" THEN TurnReject(turn, "model call failed")
               ELSE IF o.kind = "no-message" THEN TurnReject(turn, "No output from model")
               ELSE IF o.message.tool_calls = <<>>
               THEN TurnFinal([turn EXCEPT !.assistantMessage = o.message], o)
               ELSE TurnToolLoop([turn EXCEPT !.assistantMessage = o.message,
                                              !.idx = 1])
    /\ UNCHANGED <<sessions, heap, now, req, ended, swept, chat, render>>

\* postJson, book8Client.js 15-25: await fetch(..) resolves, postJson goes on
\* to await res.json()
TurnResponseArrives ==
    /\ turn.pc = "tool" /\ ~turn.body
    /\ turn' = [turn EXCEPT !.body = TRUE]
    /\ UNCHANGED <<sessions, heap, now, req, ended, swept, chat, render>>

\* postJson ends with outcome o from where it is suspended: fetch rejects
\* while the request is out; once the body is read nothing rejects (a body
\* that is not JSON is taken for {})
PostJsonEnds(st, o) == IF st.body THEN o # "throw" ELSE o = "throw"

\* lines 57-125: the request of a tool call ended with outcome o
TurnToolDone(o) ==
    /\ turn.pc = "tool" /\ PostJsonEnds(turn, o)
    /\ LET call == turn.assistantMessage.tool_calls[turn.idx]
       IN  turn' = TurnToolLoop(
                      [turn EXCEPT !.apiCalls[Len(turn.apiCalls)].outcome = o,
                                   !.body = FALSE,
                                   !.toolResults = Append(@,
                                       ToolMsg(call.id,
                                               TurnToolContent(o, ApiOf(call.name)))),
                                   !.idx = @ + 1])
    /\ UNCHANGED <<sessions, heap, now, req, ended, swept, chat, render>>

\* lines 139-146: the answer to the model call that carried the tool results
TurnFinalResponse(o) ==
    /\ turn.pc = "final"
    /\ turn' = TurnFinal(turn, o)
    /\ UNCHANGED <<sessions, heap, now, req, ended, swept, chat, render>>

UserMessages == {"Book 10:00 please.", "Do you have time tomorrow?"}

NextTurn ==
    \/ \E m \in UserMessages : TurnStart(m)
    \/ \E o \in ModelOutcomes(1) : TurnFirstResponse(o)
    \/ TurnResponseArrives
    \/ \E o \in PostJsonOutcomes : TurnToolDone(o)
    \/ \E o \in ThirdOutcomes : TurnFinalResponse(o)

(***************************************************************************)
(* The call handlers as actions                                            *)
(***************************************************************************)

Init ==
    /\ sessions = <<>>
    /\ heap = <<>>
    /\ now = 0
    /\ req = [r \in ReqIds |-> IdleReq]
    /\ ended = {}
    /\ swept = [removed |-> {}, kept |-> {}]
    /\ chat = ChatIdle
    /\ turn = TurnIdle
    /\ render = RenderIdle

Commit(r, sess, out) ==
    LET rq == [req EXCEPT ![r] = out.rec]
    IN  /\ req' = rq
        /\ sessions' = sess
        /\ heap' = Collect(sess, out.heap, rq)
        /\ ended' = IF out.rec.pc = "s-notify" /\ req[r].pc # "s-notify"
                     THEN ended \cup ({out.rec.callSid} \ {Null})
                     ELSE ended
        /\ UNCHANGED <<now, swept, chat, turn, render>>

\* The bounds of the state space. The code has none of them: they are no
\* part of any action and guard the events in the next-state relations only.
\* No further utterance is fed into a session that holds MaxMsgs messages
HasRoom(callSid) ==
    callSid \in DOMAIN sessions => Len(heap[sessions[callSid]].messages) < MaxMsgs

\* a followed call gets the turn of its last utterance: the reply is the last
\* entry its session takes
HasRoomForReply(callSid) ==
    callSid \in DOMAIN sessions => Len(heap[sessions[callSid]].messages) <= MaxMsgs

\* the awaits on a request: await fetch(..) of resolveBusinessByTo (2134), of
\* the notifications (2396, 3096) and of callAgentSafely (2194)
FetchPcs == {"v-resolve", "g-resolve", "p-resolve", "s-resolve", "v-notify",
             "s-notify", "p-agent"}

\* the request of handler r is answered: await fetch(..) resolves and the
\* handler goes on to its second await, r.json() (2141), coreApiRes.text()
\* (2403, 3103) or agentRes.text() (2204). resolveBusinessByTo reads the body
\* of a 2xx answer only
ResponseArrives(r) ==
    /\ req[r].pc \in FetchPcs /\ ~req[r].body
    /\ Commit(r, sessions, Ok([req[r] EXCEPT !.body = TRUE], heap))

\* the awaited call has returned to the handler
Resumed(rec) == [rec EXCEPT !.body = FALSE]

\* resolveBusinessByTo ends with outcome o from where it is suspended: while
\* the request is out, fetch rejects or the answer is not 2xx; while the body
\* is read, the body is JSON, is not, or the connection breaks
ResolveEnds(rec, o) ==
    IF rec.body THEN o.kind \in {"ok", "bad-json", "throw"}
    ELSE o.kind \in {"not-ok", "throw"}

\* a notification ends with outcome o: fetch rejects, or the body was read
\* (text() rejects when the connection breaks)
NotifyEnds(rec, o) == rec.body \/ o = "throw"

\* callAgentSafely ends with outcome o: while the request is out, the 10 s
\* timer aborts it or the connection fails; the timer is cleared once fetch
\* has resolved (2201)
AgentEnds(rec, o) ==
    IF rec.body THEN o.kind # "timeout" ELSE o.kind \in {"timeout", "network"}

\* a request with a method its path has no route for falls through to the
\* fallback of lines 3134-3136: no handler runs, the store is not touched
Unrouted(r, callSid, first) ==
    Commit(r, sessions,
           Ok(Finish(Send([NewReq("unrouted", callSid, Null, Null, "", Null)
                              EXCEPT !.first = first],
                          NotFoundResp)),
              heap))

\* POST /twilio/voice; first is the business identifier the call's first
\* response carried, when the request follows a URL of an earlier response
StartVoice(r, callSid, to, qBiz, first) ==
    LET gs == getSession(callSid)
        rec == [NewReq("voice", callSid, to, qBiz, "", Null)
                   EXCEPT !.session = gs.obj, !.first = first]
    IN  Commit(r, gs.sessions, CatchApology(VoiceEntry(rec, gs.heap)))

ReceiveVoice(r, callSid, to, qBiz) ==
    /\ req[r].pc = "idle"
    /\ StartVoice(r, callSid, to, qBiz, Null)

\* a resolver whose transport failure reaches the handler as an exception
VoiceResolveUnguarded(r, o) ==
    /\ req[r].pc = "v-resolve" /\ ResolveEnds(req[r], o)
    /\ LET rec == [Resumed(req[r]) EXCEPT !.resolveKind = ResolveKind(o)]
       IN  Commit(r, sessions,
                  CatchApology(IF o.kind = "throw" THEN Throw(rec, heap)
                               ELSE VoiceResolved(rec, heap, resolveBusinessByTo(o))))

VoiceResolveDone(r, o) ==
    /\ req[r].pc = "v-resolve" /\ ResolveEnds(req[r], o)
    /\ Commit(r, sessions,
              CatchApology(VoiceResolved([Resumed(req[r]) EXCEPT !.resolveKind = ResolveKind(o)],
                                         heap, resolveBusinessByTo(o))))

\* a call-start notification without its own try/catch
VoiceNotifyUnguarded(r, o) ==
    /\ req[r].pc = "v-notify" /\ NotifyEnds(req[r], o)
    /\ LET rec == [Resumed(req[r]) EXCEPT !.notifyKind = o]
       IN  Commit(r, sessions,
                  CatchApology(IF o = "throw" THEN Throw(rec, heap)
                               ELSE VoiceGreet(rec, heap, req[r].businessId)))

\* lines 2396-2450: fetch rejected, or the body of the answer was read
VoiceNotifyDone(r, o) ==
    /\ req[r].pc = "v-notify" /\ NotifyEnds(req[r], o)
    /\ Commit(r, sessions,
              CatchApology(VoiceGreet([Resumed(req[r]) EXCEPT !.notifyKind = o], heap,
                                      req[r].businessId)))

\* POST /twilio/handle-gather
GatherRequest(r, callSid, to, qBiz, speech, first) ==
    LET gs == getSession(callSid)
        rec == [NewReq("gather", callSid, to, qBiz, speech, Null)
                   EXCEPT !.session = gs.obj, !.first = first]
    IN  Commit(r, gs.sessions, CatchApology(GatherEntry(rec, gs.heap)))

ReceiveGather(r, callSid, to, qBiz, speech) ==
    /\ req[r].pc = "idle"
    /\ GatherRequest(r, callSid, to, qBiz, speech, Null)

GatherResolveDone(r, o) ==
    /\ req[r].pc = "g-resolve" /\ ResolveEnds(req[r], o)
    /\ Commit(r, sessions,
              CatchApology(GatherResolved([Resumed(req[r]) EXCEPT !.resolveKind = ResolveKind(o)],
                                          heap, resolveBusinessByTo(o))))

\* GET /twilio/process-agent
ProcessRequest(r, callSid, to, qBiz, speech, first) ==
    LET gs == getSession(callSid)
        rec == [NewReq("process", callSid, to, qBiz, speech, Null)
                   EXCEPT !.session = gs.obj, !.first = first]
    IN  Commit(r, gs.sessions, CatchApology(ProcessEntry(rec, gs.heap)))

ReceiveProcess(r, callSid, to, qBiz, speech) ==
    /\ req[r].pc = "idle"
    /\ ProcessRequest(r, callSid, to, qBiz, speech, Null)

ProcessResolveDone(r, o) ==
    /\ req[r].pc = "p-resolve" /\ ResolveEnds(req[r], o)
    /\ Commit(r, sessions,
              CatchApology(ProcessResolved([Resumed(req[r]) EXCEPT !.resolveKind = ResolveKind(o)],
                                           heap, resolveBusinessByTo(o))))

ProcessAgentDone(r, o) ==
    /\ req[r].pc = "p-agent" /\ AgentEnds(req[r], o)
    /\ Commit(r, sessions,
              CatchApology(ProcessAgentReturned(Resumed(req[r]), heap, o)))

\* POST /twilio/status-callback, lines 2997-3053
ReceiveStatus(r, callSid, to, status) ==
    /\ req[r].pc = "idle"
    /\ LET rec == NewReq("status", callSid, to, Null, "", status)
       IN  IF status \notin EndStates
           THEN Commit(r, sessions, CatchAck(Ok(Finish(Send(rec, EmptyAck)), heap)))
           ELSE IF to # Null
           THEN Commit(r, sessions,
                       CatchAck(Ok([rec EXCEPT !.pc = "s-resolve", !.resolves = @ + 1],
                                   heap)))
           ELSE LET c == StatusCleanup(rec, sessions)
                IN  Commit(r, c.sessions, CatchAck(Ok(c.rec, heap)))

\* the resolver answered (the answer only goes into the notification)
StatusResolveDone(r, o) ==
    /\ req[r].pc = "s-resolve" /\ ResolveEnds(req[r], o)
    /\ LET c == StatusCleanup([Resumed(req[r]) EXCEPT !.businessId = resolveBusinessByTo(o),
                                             !.resolveKind = ResolveKind(o)],
                              sessions)
       IN  Commit(r, c.sessions, CatchAck(Ok(c.rec, heap)))

\* lines 3096-3122: the notification ended (fetch rejected, or the body of
\* the answer was read), the empty response is sent
StatusNotifyDone(r, o) ==
    /\ req[r].pc = "s-notify" /\ NotifyEnds(req[r], o)
    /\ Commit(r, sessions,
              CatchAck(Ok(Finish(Send([Resumed(req[r]) EXCEPT !.notifyKind = o], EmptyAck)),
                          heap)))

\* an interval callback that deletes nothing
SweepNothing ==
    /\ \E c \in DOMAIN sessions : Expired(heap[sessions[c]])
    /\ UNCHANGED vars

\* the setInterval callback of lines 2294-2302; a run that finds no expired
\* session changes nothing
Sweep ==
    /\ LET keep == {c \in DOMAIN sessions : ~Expired(heap[sessions[c]])}
           sess == [c \in keep |-> sessions[c]]
       IN  /\ sessions' = sess
           /\ heap' = Collect(sess, heap, req)
           /\ swept' = IF keep = DOMAIN sessions THEN swept
                       ELSE [removed |-> DOMAIN sessions \ keep, kept |-> keep]
    /\ UNCHANGED <<now, req, ended, chat, turn, render>>

\* time passes
Tick(d) ==
    /\ now' = now + d
    /\ UNCHANGED <<sessions, heap, req, ended, swept, chat, turn, render>>

\* the handler returns: its parameters and locals are gone
Return(r) ==
    /\ req[r].pc = "done"
    /\ Commit(r, sessions, Ok(IdleReq, heap))

\* the events of one call, handled one at a time
SeqSlots == {"h1"}
SeqCalls == {"CA1", Null}
Dialed == DialedNumbers \cup {Null}
QueryBiz == Businesses \cup {Null}

Next ==
    \/ \E r \in SeqSlots, c \in SeqCalls, t \in Dialed, q \in QueryBiz :
          ReceiveVoice(r, c, t, q)
    \/ \E r \in SeqSlots, o \in ResolverOutcomes : VoiceResolveDone(r, o)
    \/ \E r \in SeqSlots, o \in NotifyOutcomes : VoiceNotifyDone(r, o)
    \/ \E r \in SeqSlots, c \in SeqCalls, t \in Dialed, q \in QueryBiz,
          s \in SpeechInputs : HasRoom(c) /\ ReceiveGather(r, c, t, q, s)
    \/ \E r \in SeqSlots, o \in ResolverOutcomes : GatherResolveDone(r, o)
    \/ \E r \in SeqSlots, c \in SeqCalls, t \in Dialed, q \in QueryBiz,
          s \in SpeechInputs : HasRoom(c) /\ ReceiveProcess(r, c, t, q, s)
    \/ \E r \in SeqSlots, o \in ResolverOutcomes : ProcessResolveDone(r, o)
    \/ \E r \in SeqSlots, o \in AgentOutcomes : ProcessAgentDone(r, o)
    \/ \E r \in SeqSlots, c \in SeqCalls, t \in Dialed, st \in StatusInputs :
          ReceiveStatus(r, c, t, st)
    \/ \E r \in SeqSlots, o \in ResolverOutcomes : StatusResolveDone(r, o)
    \/ \E r \in SeqSlots, o \in NotifyOutcomes : StatusNotifyDone(r, o)
    \/ \E r \in SeqSlots : ResponseArrives(r)
    \/ \E r \in SeqSlots : Return(r)

Spec == Init /\ [][Next]_vars

\* the store over time: calls are answered with a business in the query string,
\* callers speak, calls end, the clock advances and the sweep runs
StoreBusiness == "waismofit"
StoreSpeech == "book me in"

NextStore ==
    \/ \E r \in SeqSlots, c \in CallSids : ReceiveVoice(r, c, Null, StoreBusiness)
    \/ \E r \in SeqSlots, c \in CallSids :
          HasRoom(c) /\ ReceiveGather(r, c, Null, StoreBusiness, StoreSpeech)
    \/ \E r \in SeqSlots, c \in CallSids : ReceiveStatus(r, c, Null, "completed")
    \/ \E r \in SeqSlots, o \in NotifyOutcomes : StatusNotifyDone(r, o)
    \/ \E r \in SeqSlots : ResponseArrives(r)
    \/ \E r \in SeqSlots : Return(r)
    \/ Sweep
    \/ \E d \in TickSteps : CanTick(d) /\ Tick(d)

SpecStore == Init /\ [][NextStore]_vars

\* the interval timer keeps firing
SpecStoreFair == SpecStore /\ WF_vars(Sweep)

SpecChat == Init /\ [][NextChat]_vars

SpecTurn == Init /\ [][NextTurn]_vars

(***************************************************************************)
(* Claims about the call handlers                                          *)
(***************************************************************************)
VoiceKinds == {"voice", "gather", "process"}

ResponseTypes == {"say-hangup", "gather", "redirect-voice", "say-redirect-process", "empty"}

\* a response the transport can act on: one of the shapes above, every spoken
\* text a string, every continuation URL of a gather carrying a business
WellFormed(resp) ==
    /\ resp.type \in ResponseTypes
    /\ resp.type \in {"say-hangup", "gather", "say-redirect-process"} =>
           resp.say # Null /\ resp.say # NonStringReply /\ Len(resp.say) > 0
    /\ resp.type \in {"gather", "say-redirect-process"} => resp.biz \in Businesses

\* C1: a handler that has ended has sent exactly one response, a well-formed
\* one, and nothing is sent before it ends; a voice handler in which an
\* exception was thrown has sent the apology followed by hang-up
C1_OneWellFormedResponse ==
    \A r \in ReqIds :
        /\ req[r].pc = "done" =>
              /\ Len(req[r].sent) = 1
              /\ WellFormed(req[r].sent[1])
              /\ (req[r].threw /\ req[r].kind \in VoiceKinds) =>
                     req[r].sent[1] = SayHangup(ApologyText)
        /\ req[r].pc # "done" => req[r].sent = <<>>

\* an exception thrown after the agent had answered was turned into the apology
C1_Witness ==
    \E r \in ReqIds :
        /\ req[r].pc = "done" /\ req[r].kind = "process"
        /\ req[r].threw /\ req[r].agentKind = "ok"
        /\ req[r].sent = <<SayHangup(ApologyText)>>

\* C2: once the status callback for a terminal status of call c is past its
\* cleanup, the store holds no session for c, and the handler ends with the
\* empty acknowledgment as its only response, whatever the notification did
C2_TerminalStatusDeletes ==
    \A r \in ReqIds :
        (req[r].kind = "status" /\ req[r].status \in EndStates) =>
            /\ req[r].pc \in {"s-notify", "done"} => req[r].callSid \notin DOMAIN sessions
            /\ req[r].pc = "done" => req[r].sent = <<EmptyAck>>

\* a session was deleted and the notification threw
C2_Witness ==
    \E r \in ReqIds :
        /\ req[r].kind = "status" /\ req[r].pc = "done"
        /\ req[r].status = "completed" /\ req[r].cleaned
        /\ req[r].notifyKind = "throw"
        /\ req[r].sent = <<EmptyAck>>

FixedFallbacks ==
    {"I'm having trouble accessing the scheduling system right now. Please try again a bit later.",
     "I'm having trouble processing the response. Please try again.",
     "I'm taking a bit longer than usual. Please hold on, or try again in a moment.",
     "I'm having trouble connecting right now. Please try calling again in a moment."}

\* C3: a turn whose agent call failed ends with one gather response that
\* speaks one of the fixed fallback texts; no exception, no hang-up
C3_AgentFailureKeepsCall ==
    \A r \in ReqIds :
        (req[r].kind = "process" /\ req[r].pc = "done"
            /\ req[r].agentKind \in AgentFailureKinds) =>
            /\ ~req[r].threw
            /\ Len(req[r].sent) = 1
            /\ req[r].sent[1].type = "gather"
            /\ \E t \in FixedFallbacks :
                   req[r].sent[1].say = "<speak>" \o t \o "</speak>"
            /\ req[r].sent[1].biz = req[r].businessId

\* the agent call failed with a network error and the caller is asked again
C3_Witness ==
    \E r \in ReqIds :
        /\ req[r].kind = "process" /\ req[r].pc = "done"
        /\ req[r].agentKind = "network"
        /\ req[r].sent[1].type = "gather"


(***************************************************************************)
(* The model/tool orchestration of /debug/agent-chat                       *)
(***************************************************************************)
\* the tool calls the tool loop has been handed, round 1 then round 2
ChatIssuedCalls == chat.assistantMessage.tool_calls \o chat.secondMessage.tool_calls

\* the tool results collected so far
ChatOutputs == chat.toolOutputs \o chat.secondToolOutputs

\* the answer the turn gives for a final message content
FinalReply(content) ==
    <<[status |-> 200, ok |-> TRUE,
       reply |-> IF content # Null THEN content ELSE FinalFallback]>>

\* C4: when the model requests tool calls on every round (in its first,
\* second and third answer), the turn stops at the round bound and returns the
\* generic fallback reply.
C4_FallbackAtRoundBound ==
    (/\ chat.pc = "done"
     /\ chat.assistantMessage.tool_calls # <<>>
     /\ chat.secondMessage.tool_calls # <<>>
     /\ chat.third.kind = "message"
     /\ chat.third.message.tool_calls # <<>>)
        => chat.response = FinalReply(Null)

\* C5: one turn calls the model at most the round bound plus one times (at most
\* 4 times for the bound 3), whatever the model returns.
C5_ModelCallsCapped == Len(chat.modelCalls) <= 3 + 1

\* the longest turn: three model calls, the model still asking for tools
C5_Witness ==
    /\ chat.pc = "done"
    /\ Len(chat.modelCalls) = 3
    /\ chat.third.message.tool_calls # <<>>

\* C6: POST /api/agent/book is invoked at most once per book_appointment tool
\* call the model issued; a failed booking is not repeated, and a further
\* booking is made only for a tool call of a later answer.
C6_BookingOncePerRequest ==
    \A k \in DOMAIN chat.apiCalls :
        chat.apiCalls[k].api = "book" =>
            /\ \E c \in DOMAIN ChatIssuedCalls :
                  /\ ChatIssuedCalls[c].id = chat.apiCalls[k].id
                  /\ ChatIssuedCalls[c].name = "book_appointment"
            /\ \A j \in DOMAIN chat.apiCalls :
                  (chat.apiCalls[j].api = "book" /\
                   chat.apiCalls[j].id = chat.apiCalls[k].id) => j = k

\* a booking failed in round 1 and the second answer of the model asked for a
\* booking again, which was made
C6_Witness ==
    \E j, k \in DOMAIN chat.apiCalls :
        /\ j < k
        /\ chat.apiCalls[j].api = "book" /\ chat.apiCalls[j].outcome = "error"
        /\ chat.apiCalls[k].api = "book" /\ chat.apiCalls[k].outcome # "pending"
        /\ \E c \in DOMAIN chat.assistantMessage.tool_calls :
              chat.assistantMessage.tool_calls[c].id = chat.apiCalls[j].id
        /\ \E c \in DOMAIN chat.secondMessage.tool_calls :
              chat.secondMessage.tool_calls[c].id = chat.apiCalls[k].id

\* the tool messages that directly follow message i
ResultsAfter(msgs, i) ==
    {j \in (i + 1)..Len(msgs) : \A h \in (i + 1)..j : msgs[h].role = "tool"}

\* every tool call of an assistant message is followed by exactly one result with
\* its identifier, and every tool message is the result of such a call
Paired(msgs) ==
    /\ \A i \in DOMAIN msgs :
          (msgs[i].role = "assistant" /\ msgs[i].tool_calls # <<>>) =>
              /\ \A c \in DOMAIN msgs[i].tool_calls :
                    Cardinality({j \in ResultsAfter(msgs, i) :
                        msgs[j].tool_call_id = msgs[i].tool_calls[c].id}) = 1
              /\ \A j \in ResultsAfter(msgs, i) :
                    \E c \in DOMAIN msgs[i].tool_calls :
                        msgs[i].tool_calls[c].id = msgs[j].tool_call_id
    /\ \A j \in DOMAIN msgs :
          msgs[j].role = "tool" =>
              \E i \in 1..(j - 1) :
                  /\ msgs[i].role = "assistant" /\ msgs[i].tool_calls # <<>>
                  /\ j \in ResultsAfter(msgs, i)

\* C7: tool calls and tool results are paired 1:1 in every model call that
\* follows a round of tool calls.
C7_ResultsPairedWithRequests ==
    \A k \in DOMAIN chat.modelCalls : Paired(chat.modelCalls[k].messages)

\* { ok: false, error: <description> }
ErrorResults == {ApiErrorBody, FetchFailedBody,
                 "{\"ok\":false,\"error\":\"Unexpected end of JSON input\"}"}

\* C8: a failure of the booking API during a tool call (no response, or an
\* error response) yields the tool result {ok:false, error} for that call, which
\* the follow-up model call of the round is given.
C8_ApiFailureFedBack ==
    \A k \in DOMAIN chat.apiCalls :
        chat.apiCalls[k].outcome \in {"throw", "error"} =>
            /\ \E i \in DOMAIN ChatOutputs :
                  /\ ChatOutputs[i].tool_call_id = chat.apiCalls[k].id
                  /\ ChatOutputs[i].content \in ErrorResults

\* the tool loop has taken up the tool call c of ChatIssuedCalls
ChatReached(c) ==
    LET n == Len(chat.assistantMessage.tool_calls)
    IN  IF c <= n THEN chat.round > 1 \/ (chat.round = 1 /\ chat.idx >= c)
        ELSE chat.round = 2 /\ chat.idx >= c - n

\* the tool loop has gone past the tool call c of ChatIssuedCalls
ChatPassed(c) ==
    LET n == Len(chat.assistantMessage.tool_calls)
    IN  IF c <= n THEN chat.round > 1 \/ (chat.round = 1 /\ chat.idx > c)
        ELSE chat.round = 2 /\ chat.idx > c - n

\* C9: a tool call whose argument string cannot be parsed does not crash the
\* tool loop: it gets the tool result {ok:false, error} for that call.
C9_BadArgumentsFedBack ==
    \A c \in DOMAIN ChatIssuedCalls :
        (ChatReached(c) /\ ChatIssuedCalls[c].arguments = MalformedArgs) =>
            /\ chat.response = <<>> \/ chat.response[1].status # 500
            /\ \E i \in DOMAIN ChatOutputs :
                  /\ ChatOutputs[i].tool_call_id = ChatIssuedCalls[c].id
                  /\ ChatOutputs[i].content \in ErrorResults

UnknownToolResult == "{\"ok\":false,\"error\":\"unknown tool\"}"

\* C10: a tool call with a name other than check_availability and
\* book_appointment gets the tool result {ok:false, error:"unknown tool"}, and
\* no request is sent to the booking API for it.
C10_UnknownToolRejected ==
    \A c \in DOMAIN ChatIssuedCalls :
        (ChatPassed(c) /\ ChatIssuedCalls[c].name = UnknownTool) =>
            /\ \A k \in DOMAIN chat.apiCalls :
                  chat.apiCalls[k].id # ChatIssuedCalls[c].id
            /\ \E i \in DOMAIN ChatOutputs :
                  /\ ChatOutputs[i].tool_call_id = ChatIssuedCalls[c].id
                  /\ ChatOutputs[i].content = UnknownToolResult

\* C11: the reply of a turn that ended with an answer is a non-empty text,
\* whatever the model returned: an empty or missing content of the final
\* assistant message is replaced by a canned text.
C11_ReplyNeverEmpty ==
    (chat.pc = "done" /\ chat.response[1].status = 200) =>
        /\ chat.response[1].reply # Null
        /\ chat.response[1].reply # ""

(***************************************************************************)
(* Claims about the session store                                          *)
(***************************************************************************)
\* the messages of the session stored for call c
History(c) == heap[sessions[c]].messages

\* C12: the messages of every session in the store are exactly one system
\* entry followed by alternating user and assistant entries in arrival order.
C12_SystemThenAlternating ==
    \A c \in DOMAIN sessions :
        /\ Len(History(c)) >= 1
        /\ History(c)[1].role = "system"
        /\ \A i \in 2..Len(History(c)) :
              History(c)[i].role = IF i % 2 = 0 THEN "user" ELSE "assistant"

\* the session object of call c stays in the store over the step
SameSession(c) ==
    c \in DOMAIN sessions /\ c \in DOMAIN sessions' /\ sessions'[c] = sessions[c]

BusinessKept ==
    \A c \in CallSids :
        (SameSession(c) /\ heap[sessions[c]].businessId # Null) =>
            heap'[sessions'[c]].businessId = heap[sessions[c]].businessId

\* C13: within one call the businessId of a session, once set to a business,
\* is never changed to another value nor back to null by any handler.
C13_BusinessIdStable == [][BusinessKept]_vars

\* C14: once a terminal status has been processed for call c, no later event
\* for c puts a session for c back into the store.
C14_NoResurrection == \A c \in ended : c \notin DOMAIN sessions

\* the handler that starts in this step, for call c
Starts(r, c) ==
    req[r].pc = "idle" /\ req'[r].pc # "idle" /\ req'[r].callSid = c

\* the session created in this step for an ended call c starts with a fresh
\* system message; beyond it there is at most what the creating handler put
\* in before its first await (its utterance, the businessId of its query
\* string): no message and no businessId of the earlier session
RecreatedSeeded ==
    \A c \in ended, r \in ReqIds :
        (Starts(r, c) /\ c \notin DOMAIN sessions /\ c \in DOMAIN sessions') =>
            LET s == heap'[sessions'[c]]
            IN  /\ Len(s.messages) \in 1..2
                /\ s.messages[1].role = "system"
                /\ Len(s.messages) = 2 =>
                      s.messages[2] = [role |-> "user", content |-> req'[r].speech]
                /\ s.businessId \in {Null, req'[r].qBiz}

\* C15: after a terminal status removed the session of call c, the next
\* getSession(c) creates a brand-new session: a fresh system message, none of
\* the earlier session's messages and no carried-over businessId.
C15_RecreatedWithSystemMessage == [][RecreatedSeeded]_vars

StableStep ==
    \A c \in CallSids :
        /\ (c \in DOMAIN sessions /\ c \in DOMAIN sessions') => sessions'[c] = sessions[c]
        /\ SameSession(c) =>
              heap'[sessions'[c]].lastActive >= heap[sessions[c]].lastActive
        /\ \A r \in ReqIds :
              (Starts(r, c) /\ req'[r].kind \in VoiceKinds /\ c \in DOMAIN sessions) =>
                  /\ req'[r].session = sessions[c]
                  /\ heap'[sessions[c]].lastActive = now

\* C16: getSession for a call that has a session returns that same session
\* object and sets its lastActive to the current time, which is not earlier
\* than before; lastActive of a stored session never decreases.
C16_SameObjectLaterActivity == [][StableStep]_vars

\* the second utterance of a call went into the session object of the first,
\* fetched again after the clock had advanced
C16_Witness ==
    \E c \in DOMAIN sessions, r \in ReqIds :
        /\ req[r].kind = "gather" /\ req[r].callSid = c
        /\ req[r].session = sessions[c]
        /\ Len(History(c)) = 2
        /\ now > 0
        /\ heap[sessions[c]].lastActive = now

\* a step of the sweep: no handler moves and the store changes
SweepStep == req' = req /\ sessions' # sessions

SweepExact ==
    SweepStep =>
        /\ DOMAIN sessions' \subseteq DOMAIN sessions
        /\ \A c \in DOMAIN sessions :
              IF now - heap[sessions[c]].lastActive > SESSION_TTL_MS
              THEN c \notin DOMAIN sessions'
              ELSE /\ c \in DOMAIN sessions'
                   /\ sessions'[c] = sessions[c]
                   /\ heap'[sessions'[c]] = heap[sessions[c]]

\* C17: a run of the sweep removes every session idle for more than the TTL of
\* 20 minutes and no other; the sessions idle for at most the TTL stay in the
\* store, their messages, businessId and lastActive unchanged.
C17_SweepRemovesExpiredOnly == [][SweepExact]_vars

\* a sweep removed a session and kept one that had been idle for exactly the TTL
C17_Witness ==
    /\ swept.removed # {}
    /\ \E k \in swept.kept :
          /\ k \in DOMAIN sessions
          /\ History(k) # <<>>
          /\ now - heap[sessions[k]].lastActive = SESSION_TTL_MS

\* call c has a session that has been idle for longer than the TTL
IdleTooLong(c) ==
    c \in DOMAIN sessions /\ now - heap[sessions[c]].lastActive > SESSION_TTL_MS

\* the step that processes a terminal status for c leaves no session for c
EndedStep == \A c \in ended' \ ended : c \notin DOMAIN sessions'

\* C18: every session is destroyed in the end: by the status callback of a
\* terminal status in the step that processes it, or, once it has been idle
\* for longer than the TTL and no event touches it again, by the sweep (the
\* interval timer keeps firing).
C18_EventuallyDestroyed ==
    /\ [][EndedStep]_vars
    /\ \A c \in CallSids : IdleTooLong(c) ~> ~IdleTooLong(c)

\* the sweep destroyed the session of a call that never got a terminal status
C18_Witness ==
    \E c \in swept.removed : c \notin DOMAIN sessions /\ c \notin ended

\* the store without the entry of c
Without(sess, c) == [d \in DOMAIN sess \ {c} |-> sess[d]]

\* the step in which a status callback does its cleanup for call c
DeletionStep ==
    \A r \in ReqIds, c \in CallSids :
        (req[r].pc # "s-notify" /\ req'[r].pc = "s-notify" /\ req'[r].callSid = c) =>
            /\ sessions' = Without(sessions, c)
            /\ c \notin DOMAIN sessions => sessions' = sessions

NoStatusError ==
    \A r \in ReqIds :
        (req[r].kind = "status" /\ req[r].pc = "done") =>
            ~req[r].threw /\ req[r].sent = <<EmptyAck>>

\* C19: deletion is idempotent: a terminal status for a call that has no
\* session (none ever, or deleted by an earlier terminal status) is no error
\* and leaves the store as it is, the state a single deletion leaves.
C19_DeletionIdempotent == []NoStatusError /\ [][DeletionStep]_vars

\* a terminal status for a call without a session, while another call has one:
\* nothing was deleted, the callback ended with the empty response
C19_Witness ==
    \E r \in ReqIds :
        /\ req[r].kind = "status" /\ req[r].pc = "done"
        /\ req[r].callSid \in ended
        /\ ~req[r].cleaned /\ ~req[r].threw
        /\ req[r].sent = <<EmptyAck>>
        /\ DOMAIN sessions # {}

(***************************************************************************)
(* Claims about business resolution                                        *)
(***************************************************************************)
ResolvePcs == {"v-resolve", "g-resolve", "p-resolve", "s-resolve"}

\* the business the store knows for the call of handler r
StoredBusiness(r) ==
    IF req[r].callSid \in DOMAIN sessions
    THEN heap[sessions[req[r].callSid]].businessId
    ELSE Null

\* C20: a handler queries the resolver only when it knows no business for the
\* call, neither from its query string nor from the session.
C20_ResolverOnlyWhenUnknown ==
    \A r \in ReqIds :
        req[r].pc \in ResolvePcs =>
            req[r].qBiz = Null /\ StoredBusiness(r) = Null

\* the same for the three voice handlers alone
VoiceResolverOnlyWhenUnknown ==
    \A r \in ReqIds :
        req[r].pc \in ResolvePcs \ {"s-resolve"} =>
            req[r].qBiz = Null /\ StoredBusiness(r) = Null

ResolveFailures == {"not-ok", "throw", "bad-json", "no-id"}

\* what a handler answers when the resolver found no business
NotFoundResponses(kind) ==
    CASE kind = "voice" -> {SayHangup(NotConfiguredText)}
      [] kind = "gather" -> {RedirectVoice(Null), SayHangup(NoBusinessText)}
      [] kind = "process" -> {SayHangup(NoBusinessText)}
      [] kind = "status" -> {EmptyAck}

\* C21: the resolver never throws: a transport failure, a non-success status,
\* an unparsable body and a body without businessId all give the handler the
\* one result "not found" (null), and without a dialed number no request is
\* made at all.
C21_ResolverNeverThrows ==
    \A r \in ReqIds :
        /\ req[r].resolveKind \in ResolveFailures =>
              /\ ~req[r].threw
              /\ req[r].businessId = Null
              /\ req[r].pc = "done" =>
                    req[r].sent[1] \in NotFoundResponses(req[r].kind)
        /\ req[r].to = Null => req[r].resolves = 0 /\ req[r].resolveKind = "none"

\* the fetch of the resolver threw and the call was ended as for "not found"
C21_Witness ==
    \E r \in ReqIds :
        /\ req[r].kind = "voice" /\ req[r].pc = "done"
        /\ req[r].resolveKind = "throw"
        /\ req[r].sent = <<SayHangup(NotConfiguredText)>>

\* C22: on an initial event with no known business identifier, when the
\* resolver yields "not found" (a not-found answer or an unreachable
\* resolver), the response is one spoken message and a hang-up, without
\* gather or redirect, no session business and no notification follow, and the
\* resolver was asked exactly once.
C22_NotFoundEndsCall ==
    \A r \in ReqIds :
        req[r].kind = "voice" =>
           /\ req[r].resolves <= 1
           /\ req[r].pc = "v-resolve" => req[r].resolves = 1 /\ req[r].resolveKind = "none"
           /\ req[r].resolveKind \in ResolveFailures =>
                 /\ req[r].pc = "done"
                 /\ req[r].sent = <<SayHangup(NotConfiguredText)>>
                 /\ req[r].resolves = 1
                 /\ req[r].notifs = <<>>
                 /\ req[r].session # NoObj /\ req[r].session \in DOMAIN heap =>
                       heap[req[r].session].businessId = Null

\* the resolver was unreachable on the first event of a call
C22_Witness ==
    \E r \in ReqIds :
        /\ req[r].kind = "voice" /\ req[r].pc = "done"
        /\ req[r].resolveKind \in {"throw", "not-ok"}
        /\ req[r].sent[1].type = "say-hangup"
        /\ req[r].resolves = 1

(***************************************************************************)
(* One call whose events follow the URLs of the previous response          *)
(***************************************************************************)
\* the business identifier the first response of the call carried
FirstOf(rec) == IF rec.first # Null THEN rec.first ELSE rec.sent[1].biz

Emitted(r, type) == req[r].pc = "done" /\ req[r].sent[1].type = type

\* the first event of a call: no query string, no session yet
FirstEvent(r, callSid, to) ==
    /\ callSid \notin DOMAIN sessions
    /\ ReceiveVoice(r, callSid, to, Null)

\* the caller spoke: the action URL of <Gather>, lines 2429-2436 and 2663-2670
FollowGatherAction(r, speech) ==
    /\ Emitted(r, "gather")
    /\ GatherRequest(r, req[r].callSid, req[r].to, req[r].sent[1].biz, speech,
                     FirstOf(req[r]))

\* the caller stayed silent: the <Redirect> after <Gather>, lines 2448 and 2681.
\* The document names no method for it, so the request comes with the method
\* m of the transport's choosing; only POST has a route to /twilio/voice
FollowGatherRedirect(r, m) ==
    /\ Emitted(r, "gather")
    /\ IF m = RouteMethod("voice")
       THEN StartVoice(r, req[r].callSid, req[r].to, req[r].sent[1].biz, FirstOf(req[r]))
       ELSE Unrouted(r, req[r].callSid, FirstOf(req[r]))

\* <Redirect>/twilio/voice?businessId=..</Redirect> of handle-gather, lines
\* 2508-2512, again without a method
FollowRedirectVoice(r, m) ==
    /\ Emitted(r, "redirect-voice")
    /\ IF m = RouteMethod("voice")
       THEN StartVoice(r, req[r].callSid, req[r].to, req[r].sent[1].biz, FirstOf(req[r]))
       ELSE Unrouted(r, req[r].callSid, FirstOf(req[r]))

\* <Redirect>/twilio/process-agent?speech=..&to=..&businessId=..&callSid=..</Redirect>,
\* lines 2546-2556, without a method: /twilio/process-agent is registered with
\* app.get only, so a request that comes with POST gets the 404 of the fallback
FollowRedirectProcess(r, m) ==
    /\ Emitted(r, "say-redirect-process")
    /\ IF m = RouteMethod("process")
       THEN ProcessRequest(r, req[r].sent[1].callSid, req[r].sent[1].to,
                           req[r].sent[1].biz, req[r].sent[1].speech, FirstOf(req[r]))
       ELSE Unrouted(r, req[r].sent[1].callSid, FirstOf(req[r]))

\* a response with <Hangup/> ends the call, and so does the 404, which gives
\* the transport no document to go on with; nothing follows but the status callback
CallOver(r) ==
    /\ req[r].pc = "done"
    /\ req[r].sent[1].type \in {"say-hangup", "empty", "http-404"}
    /\ Return(r)

NextFollow ==
    \/ \E r \in SeqSlots, c \in CallSids, t \in Dialed : FirstEvent(r, c, t)
    \/ \E r \in SeqSlots, o \in ResolverOutcomes : VoiceResolveDone(r, o)
    \/ \E r \in SeqSlots, o \in NotifyOutcomes : VoiceNotifyDone(r, o)
    \/ \E r \in SeqSlots, s \in SpeechInputs :
          HasRoom(req[r].callSid) /\ FollowGatherAction(r, s)
    \/ \E r \in SeqSlots, m \in Methods : FollowGatherRedirect(r, m)
    \/ \E r \in SeqSlots, m \in Methods : FollowRedirectVoice(r, m)
    \/ \E r \in SeqSlots, m \in Methods :
          HasRoomForReply(req[r].callSid) /\ FollowRedirectProcess(r, m)
    \/ \E r \in SeqSlots, o \in AgentOutcomes : ProcessAgentDone(r, o)
    \/ \E r \in SeqSlots : ResponseArrives(r)
    \/ \E r \in SeqSlots : CallOver(r)

SpecFollow == Init /\ [][NextFollow]_vars

Continuations == {"gather", "redirect-voice", "say-redirect-process"}

\* C23: every greet-and-gather and reply-and-gather response carries a
\* non-empty business identifier in its URLs, and while the transport follows
\* the URLs of the previous response every response of the call carries the
\* identifier that was resolved at the call's first event.
C23_IdentifierThreaded ==
    \A r \in ReqIds :
        req[r].pc = "done" =>
           /\ req[r].sent[1].type = "gather" => req[r].sent[1].biz \in Businesses
           /\ (req[r].sent[1].type \in Continuations /\ req[r].first # Null) =>
                  req[r].sent[1].biz = req[r].first
           /\ (req[r].sent[1].type \in Continuations /\ req[r].first = Null) =>
                  /\ req[r].kind = "voice" /\ req[r].resolveKind = "ok"
                  /\ req[r].sent[1].biz = req[r].businessId

\* the reply of a turn is sent two round trips after the greeting and carries
\* the business the greeting carried
C23_Witness ==
    \E r \in ReqIds :
        /\ req[r].pc = "done" /\ req[r].kind = "process"
        /\ req[r].agentKind = "ok"
        /\ req[r].sent[1].type = "gather"
        /\ req[r].first \in Businesses
        /\ req[r].sent[1].biz = req[r].first

(***************************************************************************)
(* Lifecycle notifications                                                 *)
(***************************************************************************)
NotifyPcs == {"v-notify", "s-notify"}

\* what the handler answers once its notification has ended, whatever it did
AfterNotify(rec) ==
    IF rec.kind = "voice" THEN GatherResp(GreetText, rec.businessId) ELSE EmptyAck

NotifyStep ==
    \A r \in ReqIds :
        (req[r].pc \in NotifyPcs /\ req'[r] # req[r]) =>
            /\ sessions' = sessions
            /\ heap' = heap
            /\ \/ req'[r] = [req[r] EXCEPT !.body = TRUE]
               \/ /\ req'[r].pc = "done"
                  /\ req'[r].notifyKind \in NotifyOutcomes
                  /\ req'[r].sent = <<AfterNotify(req[r])>>
                  /\ ~req'[r].threw

\* C24: the response of /twilio/voice and of /twilio/status-callback and the
\* session state after it are the same whether the call-start / call-end
\* notification succeeds, answers with an error status or throws.
C24_NotificationIndependent == [][NotifyStep]_vars

\* the call-start notification threw and the caller was greeted all the same
C24_Witness ==
    \E r \in ReqIds :
        /\ req[r].kind = "voice" /\ req[r].pc = "done"
        /\ req[r].notifyKind = "throw"
        /\ req[r].sent = <<GatherResp(GreetText, req[r].businessId)>>
        /\ req[r].session # NoObj
        /\ heap[req[r].session].businessId = req[r].businessId

(***************************************************************************)
(* A call that ends while one of its turns is awaiting the agent           *)
(***************************************************************************)
\* a turn of call c is suspended in await callAgentSafely(...)
TurnSuspended(c) == \E r \in ReqIds : req[r].pc = "p-agent" /\ req[r].callSid = c

\* the webhooks of a call that has not ended
RaceGather(r, c) ==
    /\ c \notin ended
    /\ ReceiveGather(r, c, Null, StoreBusiness, StoreSpeech)

RaceProcess(r, c) ==
    /\ c \notin ended
    /\ ReceiveProcess(r, c, Null, StoreBusiness, StoreSpeech)

\* the caller hangs up during the turn: the terminal status arrives while the
\* turn is suspended
RaceStatus(r, c, status) ==
    /\ TurnSuspended(c)
    /\ ReceiveStatus(r, c, Null, status)

\* the call that is raced
RaceCalls == {"CA1"}

\* the turns run in one slot, the status callbacks in the other
StatusSlots == ReqIds \ SeqSlots

NextRace ==
    \/ \E r \in SeqSlots, c \in RaceCalls : HasRoom(c) /\ RaceGather(r, c)
    \/ \E r \in SeqSlots, c \in RaceCalls : HasRoom(c) /\ RaceProcess(r, c)
    \/ \E r \in SeqSlots, o \in AgentOutcomes : ProcessAgentDone(r, o)
    \/ \E r \in StatusSlots, c \in RaceCalls, st \in {"completed", "failed"} :
          RaceStatus(r, c, st)
    \/ \E r \in StatusSlots, o \in NotifyOutcomes : StatusNotifyDone(r, o)
    \/ \E r \in ReqIds : ResponseArrives(r)
    \/ \E r \in ReqIds : Return(r)

SpecRace == Init /\ [][NextRace]_vars

\* what the raced turn does in every case: it ends with one well-formed
\* response, the gather response of its reply unless the agent's answer itself
\* made the handler throw (a reply that is not a string), and the store holds
\* no session for the call from the cleanup on
RacedTurnEnds ==
    /\ \A c \in ended : c \notin DOMAIN sessions
    /\ \A r \in ReqIds :
          (req[r].kind = "process" /\ req[r].pc = "done" /\ req[r].callSid \in ended) =>
              /\ Len(req[r].sent) = 1
              /\ WellFormed(req[r].sent[1])
              /\ req[r].threw => req[r].agentKind = "ok"
              /\ ~req[r].threw =>
                    /\ req[r].sent[1].type = "gather"
                    /\ req[r].sent[1].biz = req[r].businessId

\* C25: a terminal status of call c that is processed while a turn of c awaits
\* the agent does not abort the turn: the turn still ends with one well-formed
\* gather response, and once both handlers have finished the store holds no
\* session for c (the turn's late append does not put the session back).
C25_TurnSurvivesCallEnd ==
    /\ \A c \in ended : c \notin DOMAIN sessions
    /\ \A r \in ReqIds :
          (req[r].kind = "process" /\ req[r].pc = "done" /\ req[r].callSid \in ended) =>
              /\ Len(req[r].sent) = 1
              /\ ~req[r].threw
              /\ req[r].sent[1].type = "gather"
              /\ req[r].sent[1].biz = req[r].businessId

\* the raced turn got an answer whose reply is not a string: the status
\* callback has cleaned up, and the turn ended with the apology and hang-up
RacedTurnHangsUp ==
    \E r, q \in ReqIds :
        /\ req[r].kind = "process" /\ req[r].pc = "done" /\ req[r].agentKind = "ok"
        /\ req[q].kind = "status" /\ req[q].pc = "done" /\ req[q].cleaned
        /\ req[q].callSid = req[r].callSid
        /\ req[r].threw
        /\ req[r].sent = <<ApologyHangup>>

\* both handlers have finished: the reply was appended to the session the
\* turn still held, and the store has no session for the call
RacedTurnAppends ==
    \E r, q \in ReqIds :
        /\ req[r].kind = "process" /\ req[r].pc = "done" /\ req[r].agentKind = "ok"
        /\ req[q].kind = "status" /\ req[q].pc = "done" /\ req[q].cleaned
        /\ req[q].callSid = req[r].callSid
        /\ req[r].callSid \in ended
        /\ req[r].sent[1].type = "gather"
        /\ req[r].callSid \notin DOMAIN sessions
        /\ \E i \in DOMAIN heap[req[r].session].messages :
              heap[req[r].session].messages[i].role = "assistant"

(***************************************************************************)
(* The stages of the agent call of a turn (callAgentSafely, lines          *)
(* 2179-2273): the fetch settles when the response headers are in, and the *)
(* body is read by a second await                                          *)
(***************************************************************************)
\* await fetch(VOICE_AGENT_URL, { signal }) resolved: clearTimeout(timeoutId),
\* lines 2194-2201, and the handler waits in await agentRes.text(), line 2204
AgentHeadersArrive(r) ==
    /\ req[r].pc = "p-agent"
    /\ ResponseArrives(r)

\* the fetch did not resolve: the 10 s timer aborted it, or the connection failed
AgentFetchFails(r, o) ==
    /\ ~req[r].body
    /\ ProcessAgentDone(r, o)

\* the body arrived (or reading it failed): lines 2204-2251
AgentBodyDone(r, o) ==
    /\ req[r].body
    /\ ProcessAgentDone(r, o)

\* the timer of line 2191 fires unless the fetch has settled: the fetch stage
\* always ends
FetchSettles ==
    \E r \in SeqSlots :
        \/ AgentHeadersArrive(r)
        \/ \E o \in AgentOutcomes : AgentFetchFails(r, o)

NextHang ==
    \/ \E r \in SeqSlots, c \in SeqCalls, q \in Businesses, s \in SpeechInputs :
          HasRoom(c) /\ ReceiveProcess(r, c, Null, q, s)
    \/ \E r \in SeqSlots : AgentHeadersArrive(r)
    \/ \E r \in SeqSlots, o \in AgentOutcomes : AgentFetchFails(r, o)
    \/ \E r \in SeqSlots, o \in AgentOutcomes : AgentBodyDone(r, o)
    \/ \E r \in SeqSlots : Return(r)

\* nothing bounds the time the agent takes to send its body: only the fetch
\* stage is fair
SpecHang == Init /\ [][NextHang]_vars /\ WF_vars(FetchSettles)

AwaitingAgent(r) == req[r].kind = "process" /\ req[r].pc = "p-agent"

\* C26: a turn that waits for the agent eventually sends its response,
\* whatever stage of its answer the agent stops at.
C26_TurnNeverStalls ==
    \A r \in SeqSlots : AwaitingAgent(r) ~> (req[r].pc = "done")

\* the 10 s timer does bound the wait for the response headers
FetchStageBounded ==
    \A r \in SeqSlots :
        (req[r].pc = "p-agent" /\ ~req[r].body) ~> (req[r].body \/ req[r].pc = "done")

(***************************************************************************)
(* One long call: the history grows past the window sent to the agent      *)
(***************************************************************************)
\* the longest history of the long call
MaxHistory == 14

LongCall == "CA1"

\* the messages of the long call's session
LongHistory ==
    IF LongCall \in DOMAIN sessions THEN heap[sessions[LongCall]].messages ELSE <<>>

\* what the caller says when the session holds n messages
Utterance(n) == "utterance " \o ToString(n)

\* POST /twilio/handle-gather with the caller's next utterance
LongGather(r) ==
    /\ req[r].pc = "idle"
    /\ GatherRequest(r, LongCall, Null, StoreBusiness, Utterance(Len(LongHistory)), Null)

\* the <Redirect> to /twilio/process-agent is followed, with the method m
LongProcess(r, m) ==
    /\ Emitted(r, "say-redirect-process")
    /\ IF m = RouteMethod("process")
       THEN ProcessRequest(r, req[r].sent[1].callSid, req[r].sent[1].to,
                           req[r].sent[1].biz, req[r].sent[1].speech, Null)
       ELSE Unrouted(r, req[r].sent[1].callSid, Null)

\* the reply was spoken; the next webhook is the caller's next utterance
\* (after the 404 the call has no document to go on with)
LongReturn(r) ==
    /\ req[r].pc = "done"
    /\ req[r].sent[1].type \notin {"say-redirect-process", "http-404"}
    /\ Return(r)

\* the agent answers the turn, or the 10 s timer aborts the call
LongOutcomes ==
    {o \in AgentOutcomes :
        \/ o.kind = "ok" /\ o.reply \in AgentReplies
        \/ o.kind = "timeout"}

NextLong ==
    \/ \E r \in SeqSlots : Len(LongHistory) + 2 <= MaxHistory /\ LongGather(r)
    \/ \E r \in SeqSlots, m \in Methods : LongProcess(r, m)
    \/ \E r \in SeqSlots, o \in LongOutcomes : ProcessAgentDone(r, o)
    \/ \E r \in SeqSlots : ResponseArrives(r)
    \/ \E r \in SeqSlots : LongReturn(r)

SpecLong == Init /\ [][NextLong]_vars

\* the history only grows, by one message appended at its end
AppendOnly ==
    \/ LongHistory' = LongHistory
    \/ /\ Len(LongHistory') = Len(LongHistory) + 1
       /\ SubSeq(LongHistory', 1, Len(LongHistory)) = LongHistory

\* the utterances are in the history in the order they arrived in: the one
\* that arrived when the session held i - 1 messages is message i
ArrivalOrder ==
    \A i \in DOMAIN LongHistory :
        LongHistory[i].role = "user" => LongHistory[i].content = Utterance(i - 1)

\* C27 as stated: the request sent to the agent holds the full history of the
\* session, in order, however long the history is.
C27_FullHistorySent ==
    \A r \in ReqIds :
        req[r].pc = "p-agent" => req[r].agentMsgs = heap[req[r].session].messages

\* C27: the messages of a session are appended in arrival order, and the
\* request sent to the agent for a turn holds the last 12 messages of the
\* history in that order: the whole history only while it has at most 12.
C27_LastTwelveSent ==
    /\ [](ArrivalOrder /\
          \A r \in ReqIds :
             req[r].pc = "p-agent" =>
                /\ Len(req[r].agentMsgs) <= HISTORY_WINDOW
                /\ \A i \in DOMAIN req[r].agentMsgs :
                      req[r].agentMsgs[i] =
                         heap[req[r].session].messages[
                            Len(heap[req[r].session].messages) - Len(req[r].agentMsgs) + i]
                /\ Len(heap[req[r].session].messages) <= HISTORY_WINDOW =>
                      req[r].agentMsgs = heap[req[r].session].messages
                /\ Len(heap[req[r].session].messages) > HISTORY_WINDOW =>
                      Len(req[r].agentMsgs) = HISTORY_WINDOW)
    /\ [][AppendOnly]_vars

\* a turn whose session holds more than 12 messages
C27_Witness ==
    \E r \in ReqIds :
        /\ req[r].pc = "p-agent"
        /\ Len(heap[req[r].session].messages) > HISTORY_WINDOW
        /\ Len(req[r].agentMsgs) = HISTORY_WINDOW
        /\ req[r].agentMsgs[HISTORY_WINDOW] = [role |-> "user", content |-> req[r].speech]

(***************************************************************************)
(* The history handed to the follow-up model calls of /debug/agent-chat    *)
(***************************************************************************)
\* the extended history at model call k of the turn: the system prompt, the
\* history the turn was started with, then the assistant tool-call messages
\* and the tool results produced before the call
ExtendedHistory(k) ==
    <<SystemMsg>> \o chat.conversationMessages
        \o (IF k >= 2 THEN <<chat.assistantMessage>> \o chat.toolOutputs ELSE <<>>)
        \o (IF k >= 3 THEN <<chat.secondMessage>> \o chat.secondToolOutputs ELSE <<>>)

FollowUpsExtended ==
    \A k \in DOMAIN chat.modelCalls :
        k >= 2 => chat.modelCalls[k].messages = ExtendedHistory(k)

\* C28: every follow-up model call of a turn receives the complete history the
\* turn was started with, followed by the assistant tool-call messages and the
\* tool results produced so far, whether the turn was started with a single
\* message or with a message array.
C28_FollowUpsGetHistory == FollowUpsExtended

\* a turn started with a single message does hand the extended history on
SingleMessageFollowUps == chat.messagesIn = <<>> => FollowUpsExtended

(***************************************************************************)
(* The rendering of a reply for spoken delivery: toPhoneSentence, lines    *)
(* 2155-2175, and lines 2657-2661 of /twilio/process-agent                 *)
(***************************************************************************)
\* the longest reply text, in pieces
MaxTokens == 3

\* a word of 75 characters: three of them pass the cap of 220
LongWord == "Supercalifragilisticexpialidocious-and-then-some-more-letters-to-make-it-75"

\* the pieces reply texts are made of
RenderTokens == {"Ok.", " ", "*", "_", "\n", "\f", VT, LongWord}

\* the reply of the agent's answer grows by one piece
RenderAppend(tok) ==
    /\ ~render.done
    /\ render' = [render EXCEPT !.n = @ + 1, !.reply = @ \o tok]
    /\ UNCHANGED <<sessions, heap, now, req, ended, swept, chat, turn>>

\* lines 2644-2661 once the agent has answered with outcome o: replyText is
\* the reply callAgentSafely returns, and it is rendered
Rendered(via, o) ==
    LET replyText == callAgentSafely(o).reply
    IN  [render EXCEPT !.via = via, !.text = replyText, !.done = TRUE,
                       !.trimmed = TrimmedReply(replyText)]

\* the agent answers { ok: true, reply } with the reply put together (an empty
\* string is falsy, as a missing reply is)
RenderSpeak ==
    /\ ~render.done
    /\ render' = Rendered("agent", [kind |-> "ok",
                                    reply |-> IF render.reply = "" THEN Null
                                              ELSE render.reply])
    /\ UNCHANGED <<sessions, heap, now, req, ended, swept, chat, turn>>

\* the agent answers { ok: true } without a reply
RenderMissing ==
    /\ ~render.done /\ render.n = 0
    /\ render' = [Rendered("agent", [kind |-> "ok", reply |-> Null])
                     EXCEPT !.reply = Null]
    /\ UNCHANGED <<sessions, heap, now, req, ended, swept, chat, turn>>

\* the agent call fails: replyText is the sentence callAgentSafely has for it
RenderFailure(kind) ==
    /\ ~render.done /\ render.n = 0
    /\ render' = Rendered(kind, [kind |-> kind, reply |-> Null])
    /\ UNCHANGED <<sessions, heap, now, req, ended, swept, chat, turn>>

\* no utterance came with the request (line 2627): the agent is not called and
\* replyText is still the request to repeat
RenderSilence ==
    /\ ~render.done /\ render.n = 0
    /\ render' = [render EXCEPT !.via = "silence", !.done = TRUE,
                                !.trimmed = TrimmedReply(render.text)]
    /\ UNCHANGED <<sessions, heap, now, req, ended, swept, chat, turn>>

NextRender ==
    \/ \E tok \in RenderTokens : render.n < MaxTokens /\ RenderAppend(tok)
    \/ RenderSpeak
    \/ RenderMissing
    \/ \E kind \in AgentFailureKinds : RenderFailure(kind)
    \/ RenderSilence

SpecRender == Init /\ [][NextRender]_vars

\* the characters of Markdown emphasis
MarkupChars == {"*", "_"}

HasChar(s, cs) == \E i \in 1..Len(s) : CharAt(s, i) \in cs

\* the text spoken holds neither asterisk nor underscore
MarkupStripped == render.done => ~HasChar(render.trimmed, MarkupChars)

\* the agent answered with an empty reply or with none
EmptyReply == render.via = "agent" /\ render.reply \in {Null, ""}

\* C29: the text rendered for a reply has at most two sentences and at most
\* 220 characters and holds no markup, and an empty or missing reply is
\* rendered as the fixed re-prompt sentence.
C29_RenderedForSpeech ==
    render.done =>
        /\ Len(SplitSentences(render.trimmed)) <= 2
        /\ Len(render.trimmed) <= PHONE_MAX_LEN
        /\ ~HasChar(render.trimmed, MarkupChars)
        /\ EmptyReply => render.trimmed = RepromptText

\* what the rendering does keep: two sentences, 220 characters, no underscore
\* and no line break; an empty or missing reply is spoken as the sentence
\* callAgentSafely puts in its place, and never reaches toPhoneSentence
RenderedShortAndFlat ==
    render.done =>
        /\ Len(SplitSentences(render.trimmed)) <= 2
        /\ Len(render.trimmed) <= PHONE_MAX_LEN
        /\ ~HasChar(render.trimmed, {"_", "\n"})
        /\ render.text \notin {Null, ""}
        /\ EmptyReply => render.trimmed = NoReplyText

\* an empty reply of the agent was spoken as "Thanks. How else can I help you
\* today?"
EmptyReplySpoken ==
    /\ render.done /\ render.via = "agent" /\ render.reply = ""
    /\ render.trimmed = NoReplyText

\* the bold marker is removed before the underscores are: a reply can be
\* rendered with a bold marker that the removal of an underscore has formed
BoldMarkerSurvives ==
    /\ render.done /\ render.via = "agent" /\ render.text = "*_*"
    /\ render.trimmed = "**"

(***************************************************************************)
(* Two calls with different identifiers, their handlers interleaved        *)
(***************************************************************************)
\* each slot runs the handlers of one call
CallOf(r) == IF r = "h1" THEN "CA1" ELSE "CA2"

PairGather(r) == ReceiveGather(r, CallOf(r), Null, StoreBusiness, StoreSpeech)

PairProcess(r) == ReceiveProcess(r, CallOf(r), Null, StoreBusiness, StoreSpeech)

PairStatus(r) == ReceiveStatus(r, CallOf(r), Null, "completed")

NextPair ==
    \/ \E r \in ReqIds : HasRoom(CallOf(r)) /\ PairGather(r)
    \/ \E r \in ReqIds : HasRoom(CallOf(r)) /\ PairProcess(r)
    \/ \E r \in ReqIds, o \in LongOutcomes : ProcessAgentDone(r, o)
    \/ \E r \in ReqIds : PairStatus(r)
    \/ \E r \in ReqIds, o \in NotifyOutcomes : StatusNotifyDone(r, o)
    \/ \E r \in ReqIds : ResponseArrives(r)
    \/ \E r \in ReqIds : Return(r)

SpecPair == Init /\ [][NextPair]_vars

\* the session the store holds for c, if any
Stored(sess, c) == IF c \in DOMAIN sess THEN sess[c] ELSE NoObj

\* a handler that holds a session holds the one the store has for its call,
\* or the store has none for it (the call has ended meanwhile); no two call
\* identifiers share a session object
OneSessionPerCall ==
    /\ \A r \in ReqIds :
          (req[r].session # NoObj /\ req[r].callSid \in DOMAIN sessions) =>
              sessions[req[r].callSid] = req[r].session
    /\ \A c, d \in DOMAIN sessions : sessions[c] = sessions[d] => c = d
    /\ \A r, q \in ReqIds :
          (req[r].session # NoObj /\ req[r].session = req[q].session) =>
              req[r].callSid = req[q].callSid

\* a step of a handler of call c leaves the entries of the other calls as they
\* are; the get-or-create of a voice handler leaves the session of c in the
\* store, and the cleanup of a terminal status leaves none
StoreStep ==
    \A r \in ReqIds :
        req'[r] # req[r] =>
            /\ \A c \in CallSids \ {req'[r].callSid, req[r].callSid} :
                  Stored(sessions', c) = Stored(sessions, c)
            /\ (req[r].pc = "idle" /\ req'[r].kind \in VoiceKinds) =>
                  /\ req'[r].session # NoObj
                  /\ Stored(sessions', req'[r].callSid) = req'[r].session
                  /\ req'[r].callSid \in DOMAIN sessions =>
                        req'[r].session = sessions[req'[r].callSid]
            /\ (req[r].pc = "idle" /\ req'[r].kind = "status") =>
                  req'[r].callSid \notin DOMAIN sessions'
            /\ (req[r].pc # "idle") =>
                  Stored(sessions', req[r].callSid) = Stored(sessions, req[r].callSid)

\* C30: get-or-create checks, inserts and reads in one step, so with the
\* handlers of different call identifiers interleaved in any way no insertion
\* and no deletion is lost and no call identifier has two distinct sessions.
C30_NoLostUpdate == []OneSessionPerCall /\ [][StoreStep]_vars

\* the session of one call was created while a turn of the other call was
\* suspended, and both are in the store
C30_Witness ==
    /\ req["h1"].pc = "p-agent" /\ req["h2"].pc = "p-agent"
    /\ DOMAIN sessions = {"CA1", "CA2"}
    /\ sessions["CA1"] # sessions["CA2"]
    /\ req["h1"].session = sessions["CA1"]
    /\ req["h2"].session = sessions["CA2"]

(***************************************************************************)
(* Utterances                                                              *)
(***************************************************************************)
\* the messages of the session of call c, none if the store has no session
HistoryOf(sess, hp, c) == IF c \in DOMAIN sess THEN hp[sess[c]].messages ELSE <<>>

UserEntry(speech) == [role |-> "user", content |-> speech]

\* a step in which slot r starts the handler `kind`
Starts_(r, kind) == req'[r] # req[r] /\ req'[r].kind = kind /\ req[r].kind # kind

\* the utterance event appends its utterance once, and the redirect to the
\* turn that follows appends nothing before the agent is invoked
UtteranceStep ==
    \A r \in ReqIds :
        /\ (Starts_(r, "gather") /\ ~IsBlank(req'[r].speech) /\ req'[r].qBiz # Null) =>
              /\ req'[r].sent = <<RedirectProcess(req'[r].speech, req'[r].to,
                                                  req'[r].qBiz, req'[r].callSid)>>
              /\ HistoryOf(sessions', heap', req'[r].callSid) =
                    Append(HistoryOf(sessions, heap, req'[r].callSid),
                           UserEntry(req'[r].speech))
        /\ (Starts_(r, "process") /\ req'[r].pc = "p-agent") =>
              HistoryOf(sessions', heap', req'[r].callSid) =
                 HistoryOf(sessions, heap, req'[r].callSid)

\* the agent request of a turn ends with the utterance of the turn
AgentSeesUtterance ==
    \A r \in ReqIds :
        req[r].pc = "p-agent" =>
            /\ req[r].agentMsgs # <<>>
            /\ req[r].agentMsgs[Len(req[r].agentMsgs)] = UserEntry(req[r].speech)
            /\ req[r].agentMsgs = LastN(heap[req[r].session].messages, HISTORY_WINDOW)

\* an utterance event without speech
SilentGather(rec) ==
    rec.kind = "gather" /\ (rec.speech = Null \/ Trim(rec.speech) = "")

\* lines 2486-2497: with a businessId in the query string the session is not
\* read; without one the handler reads session.businessId, and getSession
\* gave it a session only for an event with a call identifier
ReadsNoMissingSession(rec) == rec.qBiz # Null \/ rec.callSid # Null

\* no agent is called for a silent utterance and nothing is appended
SilentStep ==
    \A r \in ReqIds :
        (req'[r] # req[r] /\ SilentGather(req'[r])) =>
            HistoryOf(sessions', heap', req'[r].callSid) =
               HistoryOf(sessions, heap, req'[r].callSid)

NoAgentForSilence ==
    \A r \in ReqIds :
        SilentGather(req[r]) => req[r].agentKind = "none" /\ req[r].agentMsgs = <<>>

SilentAnswer ==
    \A r \in ReqIds :
        SilentGather(req[r]) =>
            IF ReadsNoMissingSession(req[r])
            THEN /\ req[r].pc \in {"g-resolve", "done"}
                 /\ ~req[r].threw
                 /\ req[r].pc = "done" =>
                       /\ Len(req[r].sent) = 1
                       /\ req[r].sent[1].type = "redirect-voice"
                       /\ req[r].sent[1] =
                             RedirectVoice(IF req[r].qBiz # Null THEN req[r].qBiz
                                           ELSE heap[req[r].session].businessId)
            ELSE /\ req[r].pc = "done"
                 /\ req[r].threw
                 /\ req[r].sent = <<ApologyHangup>>

\* C32 (as amended): an utterance event whose speech is empty or only white
\* space appends nothing to the messages of the session and invokes no agent;
\* it is answered with the redirect back to /twilio/voice when it carries a
\* businessId in its query string or a call identifier, and with the apology
\* and hang-up when it carries neither.
C32_SilenceRedirects == [](SilentAnswer /\ NoAgentForSilence) /\ [][SilentStep]_vars

\* white space was taken for silence in a call that already has an utterance
C32_Witness ==
    \E r \in ReqIds :
        /\ req[r].kind = "gather" /\ req[r].pc = "done"
        /\ req[r].speech = BlankSpeech /\ req[r].session # NoObj
        /\ req[r].sent[1].type = "redirect-voice"
        /\ Len(heap[req[r].session].messages) = 1

\* a silent utterance without call identifier and businessId got the apology
SilenceWithoutSession ==
    \E r \in ReqIds :
        /\ SilentGather(req[r]) /\ ~ReadsNoMissingSession(req[r])
        /\ req[r].sent = <<ApologyHangup>>

SilentRedirected ==
    \A r \in ReqIds :
        (SilentGather(req[r]) /\ req[r].pc = "done") =>
            /\ Len(req[r].sent) = 1
            /\ req[r].sent[1].type = "redirect-voice"

\* C32 (as stated): an utterance event whose speech is empty or only white
\* space is answered with the redirect back to /twilio/voice, appends nothing
\* to the messages of the session and invokes no agent.
C32_EverySilenceRedirects ==
    [](SilentRedirected /\ NoAgentForSilence) /\ [][SilentStep]_vars

(***************************************************************************)
(* The end of a call: /twilio/status-callback with a terminal status.      *)
(***************************************************************************)
TerminalStatus(rec) == rec.kind = "status" /\ rec.status \in EndStates

EndAttempted(rec) == rec.pc \in {"s-notify", "done"}

OneEndNotification ==
    \A r \in ReqIds : TerminalStatus(req[r]) =>
        /\ req[r].pc \in {"s-resolve", "s-notify", "done"}
        /\ req[r].pc = "s-resolve" => req[r].notifs = <<>>
        /\ EndAttempted(req[r]) =>
              /\ Len(req[r].notifs) = 1
              /\ req[r].status = "completed" => req[r].notifs[1] = "completed"
              /\ req[r].status \in {"busy", "failed", "no-answer", "canceled"} =>
                    req[r].notifs[1] = "failed"
        /\ req[r].pc = "done" => req[r].sent = <<EmptyAck>>

EndNotifyStep ==
    \A r \in ReqIds :
        (TerminalStatus(req'[r]) /\ EndAttempted(req'[r]) /\ req'[r].notifs # req[r].notifs) =>
            /\ req'[r].pc = "s-notify"
            /\ req'[r].callSid \notin DOMAIN sessions'

\* C33: a status callback with a terminal status makes exactly one
\* end-of-call notification attempt, issued once the session of the call is
\* out of the store, with outcome completed for status completed and failed
\* for busy, failed, no-answer and canceled.
C33_OneEndNotification == []OneEndNotification /\ [][EndNotifyStep]_vars

C33_Witness ==
    \E r \in ReqIds :
        /\ TerminalStatus(req[r]) /\ req[r].pc = "done"
        /\ req[r].status = "no-answer"
        /\ req[r].cleaned
        /\ req[r].notifs = <<"failed">>

(***************************************************************************)
(* A status callback for a call that is still going on.                    *)
(***************************************************************************)
LiveStatus(rec) ==
    /\ rec.kind = "status"
    /\ rec.status \notin {"completed", "failed", "busy", "no-answer", "canceled"}

LiveStatusStep ==
    \A r \in ReqIds :
        (req'[r] # req[r] /\ LiveStatus(req'[r])) =>
            /\ sessions' = sessions
            /\ \A c \in DOMAIN sessions : heap'[sessions'[c]] = heap[sessions[c]]
            /\ req'[r].pc = "done"
            /\ req'[r].notifs = <<>> /\ req'[r].notifyKind = "none"
            /\ req'[r].resolves = 0 /\ ~req'[r].cleaned
            /\ req'[r].sent = <<EmptyAck>>

\* C34: a status callback whose status is not terminal deletes, creates and
\* modifies no session, sends no end-of-call notification and answers with
\* the empty acknowledgment.
C34_LiveStatusIsNoOp == [][LiveStatusStep]_vars

C34_Witness ==
    \E r \in ReqIds :
        /\ LiveStatus(req[r]) /\ req[r].pc = "done"
        /\ req[r].callSid \in DOMAIN sessions
        /\ heap[sessions[req[r].callSid]].messages # <<>>
        /\ req[r].sent = <<EmptyAck>>

(***************************************************************************)
(* The call-start notification.  Slot h1 is a call whose events follow the *)
(* URLs of the previous response; slot h2 receives /twilio/voice events of *)
(* any shape, with or without a call identifier and a query string.        *)
(***************************************************************************)
StraySlots == ReqIds \ SeqSlots

NextStart ==
    \/ \E r \in SeqSlots, c \in CallSids, t \in Dialed : FirstEvent(r, c, t)
    \/ \E r \in StraySlots, c \in SeqCalls, t \in Dialed, q \in QueryBiz :
           ReceiveVoice(r, c, t, q)
    \/ \E r \in ReqIds, o \in ResolverOutcomes : VoiceResolveDone(r, o)
    \/ \E r \in ReqIds, o \in NotifyOutcomes : VoiceNotifyDone(r, o)
    \/ \E r \in SeqSlots, s \in SpeechInputs :
          HasRoom(req[r].callSid) /\ FollowGatherAction(r, s)
    \/ \E r \in SeqSlots, m \in Methods : FollowGatherRedirect(r, m)
    \/ \E r \in SeqSlots, m \in Methods : FollowRedirectVoice(r, m)
    \/ \E r \in SeqSlots, m \in Methods :
          HasRoomForReply(req[r].callSid) /\ FollowRedirectProcess(r, m)
    \/ \E r \in SeqSlots, o \in LongOutcomes : ProcessAgentDone(r, o)
    \/ \E r \in ReqIds : ResponseArrives(r)
    \/ \E r \in SeqSlots : CallOver(r)
    \/ \E r \in StraySlots : Return(r)

SpecStart == Init /\ [][NextStart]_vars

StartNotifyStep ==
    \A r \in ReqIds :
        (req'[r].notifs # req[r].notifs /\ req'[r].notifs # <<>>) =>
            /\ req'[r].notifs = <<"start">>
            /\ req'[r].kind = "voice"
            /\ req'[r].qBiz = Null
            /\ req'[r].callSid # Null
            /\ req'[r].businessId \in Businesses

StartedOnce ==
    \A r \in ReqIds :
        /\ Len(req[r].notifs) <= 1
        /\ req[r].first # Null => req[r].notifs = <<>>

\* C35: the call-start notification is attempted only on a /twilio/voice
\* event without a business identifier in its query string, with a call
\* identifier and a known business; the events that follow the URLs of a
\* previous response never attempt it, so a call whose events follow the
\* emitted URLs attempts it at most once.
C35_StartNotifiedOnce == []StartedOnce /\ [][StartNotifyStep]_vars

\* the followed call is back at /twilio/voice after a silent gather without a
\* second notification, while a stray first event has notified
C35_Witness ==
    /\ \E r \in SeqSlots :
           /\ req[r].kind = "voice" /\ req[r].first # Null
           /\ req[r].pc = "done" /\ req[r].sent[1].type = "gather"
           /\ req[r].notifs = <<>>
    /\ \E r \in StraySlots : req[r].notifs = <<"start">>

(***************************************************************************)
(* Two calls over time: the turns and the status callbacks of both         *)
(* interleave while the clock advances.                                    *)
(***************************************************************************)
\* the agent answers every turn and the core API takes every notification
ApartReplies == {o \in LongOutcomes : o.kind = "ok"}

NextApart ==
    \/ \E r \in ReqIds : HasRoom(CallOf(r)) /\ PairGather(r)
    \/ \E r \in ReqIds : HasRoom(CallOf(r)) /\ PairProcess(r)
    \/ \E r \in ReqIds, o \in ApartReplies : ProcessAgentDone(r, o)
    \/ \E r \in ReqIds : PairStatus(r)
    \/ \E r \in ReqIds : StatusNotifyDone(r, "ok")
    \/ \E r \in ReqIds : ResponseArrives(r)
    \/ \E r \in ReqIds : Return(r)
    \/ CanTick(1) /\ Tick(1)

SpecApart == Init /\ [][NextApart]_vars

\* a step of a handler leaves the session of every other call in the store,
\* with the fields it had
OthersUntouched ==
    \A r \in ReqIds :
        req'[r] # req[r] =>
            \A b \in DOMAIN sessions \ {req[r].callSid, req'[r].callSid} :
                /\ b \in DOMAIN sessions'
                /\ sessions'[b] = sessions[b]
                /\ heap'[sessions'[b]].messages = heap[sessions[b]].messages
                /\ heap'[sessions'[b]].businessId = heap[sessions[b]].businessId
                /\ heap'[sessions'[b]].lastActive = heap[sessions[b]].lastActive

\* C36: handling an event of call A never changes the messages, businessId or
\* lastActiveAt of the session of another call B and never removes it, however
\* the handlers interleave; only the sweep and B's own events touch B.
C36_CallsIsolated == [][OthersUntouched]_vars

\* a turn of the first call ended after the second call was last active, and
\* the session of the second call still shows its earlier time
C36_Witness ==
    /\ req["h1"].kind = "process" /\ req["h1"].pc = "done"
    /\ {"CA1", "CA2"} \subseteq DOMAIN sessions
    /\ heap[sessions["CA2"]].messages # <<>>
    /\ heap[sessions["CA2"]].lastActive < heap[sessions["CA1"]].lastActive

(***************************************************************************)
(* The history of a session that stays in the store.                       *)
(***************************************************************************)
IsPrefixOf(h1, h2) == Len(h1) <= Len(h2) /\ \A i \in DOMAIN h1 : h2[i] = h1[i]

PrefixStep ==
    \A c \in DOMAIN sessions \cap DOMAIN sessions' :
        /\ sessions'[c] = sessions[c]
        /\ IsPrefixOf(heap[sessions[c]].messages, heap'[sessions'[c]].messages)

\* C37: while a session stays in the store its history is append-only: every
\* step of a handler leaves the earlier messages as a prefix of the later
\* history, and the store keeps the same session object for the call.
C37_AppendOnlyHistory == [][PrefixStep]_vars

\* a turn ended with the reply of the agent appended after the utterance
C37_Witness ==
    \E r \in ReqIds :
        /\ req[r].kind = "process" /\ req[r].pc = "done" /\ req[r].agentKind = "ok"
        /\ req[r].callSid \in DOMAIN sessions
        /\ LET h == heap[sessions[req[r].callSid]].messages
           IN  /\ Len(h) = 2
               /\ h[1] = UserEntry("book me in")
               /\ h[2].role = "assistant"

(***************************************************************************)
(* Events without a call identifier.                                       *)
(***************************************************************************)
NoIdentifier(rec) == rec.kind \in VoiceKinds /\ rec.callSid = Null

AnsweredWithoutSession ==
    /\ Null \notin DOMAIN sessions
    /\ \A r \in ReqIds : NoIdentifier(req[r]) =>
          /\ req[r].session = NoObj
          /\ req[r].pc = "done" =>
                /\ Len(req[r].sent) = 1
                /\ WellFormed(req[r].sent[1])

NoEntryStep ==
    \A r \in ReqIds :
        (req'[r] # req[r] /\ NoIdentifier(req'[r])) =>
            /\ sessions' = sessions
            /\ heap' = heap

\* C38: an event without a call identifier creates no entry in the session
\* store (get-or-create returns no session) and leaves the sessions of the
\* store as they are, and its handler still ends with one well-formed response.
C38_NoIdentifierNoSession == []AnsweredWithoutSession /\ [][NoEntryStep]_vars

\* a greeting was asked for without a call identifier while the store held a
\* session: the handler read a field of the missing session and apologised
C38_Witness ==
    \E r \in ReqIds :
        /\ req[r].kind = "voice" /\ req[r].callSid = Null /\ req[r].pc = "done"
        /\ req[r].threw /\ req[r].sent = <<SayHangup(ApologyText)>>
        /\ DOMAIN sessions # {}

(***************************************************************************)
(* The business of a session that holds messages.                          *)
(***************************************************************************)
\* C39: every session of the store that holds at least one message has a
\* businessId: no utterance and no reply is recorded for a call whose
\* business is not recorded in its session.
C39_MessagesHaveBusiness ==
    \A c \in DOMAIN sessions :
        heap[sessions[c]].messages # <<>> => heap[sessions[c]].businessId # Null

\* what the handlers do keep: /twilio/handle-gather stores the business in
\* the session before it appends the utterance, so a session that holds an
\* utterance has a businessId
UtterancesHaveBusiness ==
    \A c \in DOMAIN sessions :
        (\E i \in DOMAIN History(c) : History(c)[i].role = "user") =>
            heap[sessions[c]].businessId # Null

\* a reply of the agent recorded by /twilio/process-agent in a session that
\* the handler created itself, with the business known from the query string only
ReplyWithoutBusiness ==
    \E r \in ReqIds :
        /\ req[r].kind = "process" /\ req[r].pc = "done" /\ req[r].qBiz # Null
        /\ req[r].callSid \in DOMAIN sessions
        /\ History(req[r].callSid) # <<>>
        /\ History(req[r].callSid)[1].role = "assistant"
        /\ heap[sessions[req[r].callSid]].businessId = Null

(***************************************************************************)
(* The method of the redirect to /twilio/process-agent.                    *)
(***************************************************************************)
\* the utterance of a followed call was taken by /twilio/handle-gather, the
\* redirect to /twilio/process-agent came with POST and met the 404 of the
\* fallback: the session holds the utterance and no turn was run for it
RedirectUnrouted ==
    \E r \in ReqIds :
        /\ req[r].kind = "unrouted" /\ req[r].pc = "done"
        /\ req[r].sent = <<NotFoundResp>>
        /\ req[r].callSid \in DOMAIN sessions
        /\ History(req[r].callSid) = <<UserEntry("book me in")>>

====
